---- MODULE Spec2Model ----
(***************************************************************************)
(* Verification model of the taffy layout core: the hidden-node algorithm  *)
(* (compute/mod.rs), the leaf resolver (compute/leaf.rs), the collapsible  *)
(* margin set (tree/layout.rs), the grid track record                      *)
(* (compute/grid/types/grid_track.rs), the node cache (tree/node.rs) and   *)
(* the free space of an AvailableSpace (style/dimension.rs).               *)
(*                                                                         *)
(* Numbers: the Unit scalar is modelled by integers.  Fractions (percent   *)
(* values, aspect ratios) are rationals k / PercentDen, and the lengths    *)
(* they multiply are drawn as multiples of PercentDen so the products are  *)
(* exact.  U::INFINITY is the distinguished value INFINITY, absorbed by    *)
(* the arithmetic helpers.  NaN is not modelled.                           *)
(*                                                                         *)
(* Specifications: SpecTree (hidden layout and leaf calls on a tree),      *)
(* SpecMargin (margin collapsing), SpecGrid (the tracks of one grid axis), *)
(* SpecFlex (an axis built from a track template with flexible tracks),    *)
(* SpecLeaf (one leaf call over the drawn styles and arguments),           *)
(* SpecLeafCases (one leaf call over styles of every display, position and *)
(* one-edge padding or border), SpecTrack (a sized track and an available  *)
(* space by themselves) and SpecDirty (the caches of a tree).              *)
(***************************************************************************)
EXTENDS Integers, Sequences, FiniteSets, TLC

\* ------------------------------------------------------------------ bounds
NumNodes == 4
MaxLen == 2
MaxMargin == 2
PercentDen == 2
MaxTracks == 2
MaxFlex == 2
MaxSpace == 2
TemplateLen == 3

\* U::INFINITY: larger than every finite length of the model
INFINITY == 1000000

VARIABLES
    children,    \* LayoutTree: node -> sequence of its child nodes
    layout,      \* LayoutTree: node -> stored Layout (layout_mut's sink)
    trace,       \* the nodes layout_mut was called on by the last call, in order
    call,        \* the last HiddenAlgorithm call: operation, node, return value, and
                 \* whether it repeats the call before it
    leaf,        \* the last leaf call: operation, arguments, returned size and result
    cache        \* node -> the Cache of the node's NodeData

VARIABLES
    marginSet,   \* a CollapsibleMarginSet being built along a collapsing chain
    seen,        \* the margins collapsed into marginSet so far
    otherSet,    \* a second CollapsibleMarginSet (a neighbouring chain)
    otherSeen,   \* the margins collapsed into otherSet
    resolved     \* Option: what resolve() returned, if called since the last change

VARIABLES
    tracks,      \* the GridTracks of one axis, in order
    gridPhase,   \* where the axis is in its lifecycle: creation, the sizing passes, placement
    axisSpace,   \* the AvailableSpace of the axis
    limitCall    \* the last fit_content_limit or fit_content_limited_growth_limit
                 \* call: which of the two, track index (0 if none), argument, result

treeVars == <<children, layout, trace, call, leaf, cache>>
gridVars == <<tracks, gridPhase, axisSpace, limitCall>>
marginVars == <<marginSet, seen, otherSet, otherSeen, resolved>>

\* ------------------------------------------------------------ Option<U>
None == [some |-> FALSE, val |-> 0]
Some(v) == [some |-> TRUE, val |-> v]

\* ------------------------------------------------------------- geometry
Max(a, b) == IF a >= b THEN a ELSE b
Min(a, b) == IF a <= b THEN a ELSE b

SizeOf(w, h) == [width |-> w, height |-> h]
PointOf(x, y) == [x |-> x, y |-> y]
SizeZero == SizeOf(0, 0)
PointZero == PointOf(0, 0)

\* ------------------------------------------------------ tree/layout.rs
\* Layout::zero (TaffyZero for Layout)
LayoutZero == [order |-> 0, size |-> SizeZero, location |-> PointZero]

\* Layout::new
LayoutNew == LayoutZero

\* Layout::with_order
with_order(order) == [LayoutZero EXCEPT !.order = order]

\* SizeBaselinesAndMargins::hidden
hidden == [size |-> SizeZero,
           first_baselines |-> PointOf(None, None),
           top_margin |-> [positive |-> 0, negative |-> 0],
           bottom_margin |-> [positive |-> 0, negative |-> 0],
           margins_can_collapse_through |-> FALSE]

\* CollapsibleMarginSet::zero
zero == [positive |-> 0, negative |-> 0]

\* Signed::is_positive.  For f32 it is the sign bit, so +0.0 counts as positive; a
\* zero margin leaves the set unchanged on either branch, as positive >= 0 >= negative.
is_positive(margin) == margin > 0

\* A from_margin that files every margin as positive.
from_margin_unsigned(margin) == [positive |-> margin, negative |-> 0]

\* CollapsibleMarginSet::from_margin
from_margin(margin) ==
    IF is_positive(margin) THEN [positive |-> margin, negative |-> 0]
    ELSE [positive |-> 0, negative |-> margin]

\* A collapse_with_margin where the last margin wins, and one that adds the margins up.
collapse_with_margin_last_wins(self, margin) ==
    IF is_positive(margin) THEN [self EXCEPT !.positive = margin]
    ELSE [self EXCEPT !.negative = margin]
collapse_with_margin_adding(self, margin) ==
    IF is_positive(margin) THEN [self EXCEPT !.positive = self.positive + margin]
    ELSE [self EXCEPT !.negative = self.negative + margin]

\* CollapsibleMarginSet::collapse_with_margin
collapse_with_margin(self, margin) ==
    IF is_positive(margin) THEN [self EXCEPT !.positive = Max(self.positive, margin)]
    ELSE [self EXCEPT !.negative = Min(self.negative, margin)]

\* A collapse_with_set that keeps its own negative margin.
collapse_with_set_own_negative(self, other) ==
    [positive |-> Max(self.positive, other.positive),
     negative |-> self.negative]

\* CollapsibleMarginSet::collapse_with_set
collapse_with_set(self, other) ==
    [positive |-> Max(self.positive, other.positive),
     negative |-> Min(self.negative, other.negative)]

\* CollapsibleMarginSet::resolve
resolve(self) == self.positive + self.negative

\* ------------------------------------------------ style/dimension.rs
\* LengthPercentage::Length, LengthPercentage::Percent; a percentage is val / PercentDen
Length(v) == [unit |-> "Length", val |-> v]
Percent(k) == [unit |-> "Percent", val |-> k]

\* context * percent
MulPercent(context, k) == (context * k) \div PercentDen

\* AvailableSpace
Definite(v) == [tag |-> "Definite", val |-> v]
MinContent == [tag |-> "MinContent", val |-> 0]
MaxContent == [tag |-> "MaxContent", val |-> 0]

\* AvailableSpace::into_option
into_option(self) == IF self.tag = "Definite" THEN Some(self.val) ELSE None

\* A compute_free_space that stops at zero.
compute_free_space_saturating(self, used_space) ==
    IF self.tag = "MaxContent" THEN INFINITY
    ELSE IF self.tag = "MinContent" THEN 0
    ELSE Max(self.val - used_space, 0)

\* AvailableSpace::compute_free_space
compute_free_space(self, used_space) ==
    IF self.tag = "MaxContent" THEN INFINITY
    ELSE IF self.tag = "MinContent" THEN 0
    ELSE self.val - used_space

\* ------------------------------------------- geometry.rs, util helpers
NONE == SizeOf(None, None)

\* Option::or, Option::unwrap_or are OptOr and unwrap_or
OptOr(a, b) == IF a.some THEN a ELSE b
unwrap_or(opt, default) == IF opt.some THEN opt.val ELSE default

\* A Size unwrap_or that takes the alternative on every axis.
size_unwrap_or_alt(self, alt) == alt

\* Size<Option<T>>::or, Size<Option<T>>::unwrap_or
size_or(self, alt) == SizeOf(OptOr(self.width, alt.width), OptOr(self.height, alt.height))
size_unwrap_or(self, alt) == SizeOf(unwrap_or(self.width, alt.width), unwrap_or(self.height, alt.height))

\* an aspect ratio is the rational num / den
NoRatio == [some |-> FALSE, num |-> 1, den |-> 1]
Ratio(num, den) == [some |-> TRUE, num |-> num, den |-> den]
TimesRatio(v, ratio) == (v * ratio.num) \div ratio.den
OverRatio(v, ratio) == (v * ratio.den) \div ratio.num

\* Size<Option<U>>::maybe_apply_aspect_ratio
maybe_apply_aspect_ratio(self, aspect_ratio) ==
    IF ~aspect_ratio.some THEN self
    ELSE IF self.width.some /\ ~self.height.some
         THEN SizeOf(self.width, Some(OverRatio(self.width.val, aspect_ratio)))
    ELSE IF ~self.width.some /\ self.height.some
         THEN SizeOf(Some(TimesRatio(self.height.val, aspect_ratio)), self.height)
    ELSE self

\* Dimension: Length, Percent (both as LengthPercentage) and Auto
Auto == [unit |-> "Auto", val |-> 0]

\* MaybeResolve for Dimension: against an Option context
maybe_resolve(dim, context) ==
    IF dim.unit = "Length" THEN Some(dim.val)
    ELSE IF dim.unit = "Percent" /\ context.some THEN Some(MulPercent(context.val, dim.val))
    ELSE None

\* MaybeResolve for Size<Dimension>: each axis against the same axis of the context
size_maybe_resolve(self, context) ==
    SizeOf(maybe_resolve(self.width, context.width), maybe_resolve(self.height, context.height))

\* ResolveOrZero for LengthPercentage and for Rect<LengthPercentage>
resolve_or_zero(lp, context) ==
    IF lp.unit = "Length" THEN lp.val
    ELSE IF context.some THEN MulPercent(context.val, lp.val)
    ELSE 0
rect_resolve_or_zero(self, context) ==
    [left |-> resolve_or_zero(self.left, context), right |-> resolve_or_zero(self.right, context),
     top |-> resolve_or_zero(self.top, context), bottom |-> resolve_or_zero(self.bottom, context)]

\* Add for Rect
rect_add(self, rhs) ==
    [left |-> self.left + rhs.left, right |-> self.right + rhs.right,
     top |-> self.top + rhs.top, bottom |-> self.bottom + rhs.bottom]

\* Rect::horizontal_axis_sum, Rect::vertical_axis_sum, Rect::sum_axes
horizontal_axis_sum(self) == self.left + self.right
vertical_axis_sum(self) == self.top + self.bottom
sum_axes(self) == SizeOf(horizontal_axis_sum(self), vertical_axis_sum(self))

\* Point::transpose
transpose(self) == PointOf(self.y, self.x)

\* MaybeMath::maybe_clamp, MaybeMath::maybe_max on a value, with Option bounds
maybe_clamp(v, min, max) ==
    IF min.some /\ max.some THEN Max(Min(v, max.val), min.val)
    ELSE IF max.some THEN Min(v, max.val)
    ELSE IF min.some THEN Max(v, min.val)
    ELSE v
maybe_max(v, rhs) == IF rhs.some THEN Max(v, rhs.val) ELSE v

\* the same on a Size, axis by axis
size_maybe_clamp(self, min, max) ==
    SizeOf(maybe_clamp(self.width, min.width, max.width), maybe_clamp(self.height, min.height, max.height))
size_maybe_max(self, rhs) == SizeOf(maybe_max(self.width, rhs.width), maybe_max(self.height, rhs.height))

\* AvailableSpace::maybe_set, AvailableSpace::map_definite_value with the closure of
\* leaf compute: clamp, then take the content-box inset off
maybe_set(self, value) == IF value.some THEN Definite(value.val) ELSE self
map_definite_clamp_less_inset(self, min, max, inset) ==
    IF self.tag = "Definite" THEN Definite(maybe_clamp(self.val, min, max) - inset) ELSE self

\* Overflow::is_scroll_container
is_scroll_container(overflow) == overflow \in {"Hidden", "Scroll"}

\* ---------------------------------------------- tree/measure_func.rs
\* Measurable::measure for the measure functions of the model: "fixed" content has
\* one size; "text" content has a natural width and height, narrows to the width it
\* is offered and grows a line taller for every unit of width it gives up.
NoMeasurable == [some |-> FALSE, kind |-> "fixed", width |-> 0, height |-> 0]
Measurable(kind, w, h) == [some |-> TRUE, kind |-> kind, width |-> w, height |-> h]

measure(self, known_dimensions, available_space) ==
    IF self.kind = "fixed" THEN SizeOf(self.width, self.height)
    ELSE LET w == IF known_dimensions.width.some THEN known_dimensions.width.val
                  ELSE IF available_space.width.tag = "Definite"
                       THEN Min(self.width, Max(available_space.width.val, 0))
                  ELSE IF available_space.width.tag = "MinContent" THEN Min(self.width, 1)
                  ELSE self.width
             h == IF known_dimensions.height.some THEN known_dimensions.height.val
                  ELSE IF w < self.width THEN self.height + (self.width - w)
                  ELSE self.height
         IN SizeOf(w, h)

\* ---------------------------------------------------- compute/leaf.rs
\* compute, the match on sizing_mode: the node's size, min size, max size and the
\* aspect ratio in effect
\* A match on sizing_mode whose ContentSize arm keeps the style's max size.
leaf_node_sizes_keeping_max(style, known_dimensions, parent_size, sizing_mode) ==
    IF sizing_mode = "ContentSize"
    THEN [node_size |-> known_dimensions,
          node_min_size |-> NONE,
          node_max_size |-> size_maybe_resolve(style.max_size, parent_size),
          aspect_ratio |-> NoRatio]
    ELSE LET aspect_ratio == style.aspect_ratio
         IN [node_size |-> size_or(known_dimensions,
                                   maybe_apply_aspect_ratio(size_maybe_resolve(style.size, parent_size),
                                                            aspect_ratio)),
             node_min_size |-> maybe_apply_aspect_ratio(size_maybe_resolve(style.min_size, parent_size),
                                                        aspect_ratio),
             node_max_size |-> size_maybe_resolve(style.max_size, parent_size),
             aspect_ratio |-> aspect_ratio]

leaf_node_sizes(style, known_dimensions, parent_size, sizing_mode) ==
    IF sizing_mode = "ContentSize"
    THEN [node_size |-> known_dimensions,
          node_min_size |-> NONE,
          node_max_size |-> NONE,
          aspect_ratio |-> NoRatio]
    ELSE LET aspect_ratio == style.aspect_ratio
             style_size == maybe_apply_aspect_ratio(size_maybe_resolve(style.size, parent_size), aspect_ratio)
             style_min_size == maybe_apply_aspect_ratio(size_maybe_resolve(style.min_size, parent_size), aspect_ratio)
             style_max_size == size_maybe_resolve(style.max_size, parent_size)
         IN [node_size |-> size_or(known_dimensions, style_size),
             node_min_size |-> style_min_size,
             node_max_size |-> style_max_size,
             aspect_ratio |-> aspect_ratio]

\* A padding and border whose top and bottom percentages resolve against the
\* parent's height.
leaf_padding_border_per_axis(style, parent_size) ==
    LET horizontal(r) == rect_resolve_or_zero(r, parent_size.width)
        vertical(r) == rect_resolve_or_zero(r, parent_size.height)
        mixed(r) == [left |-> horizontal(r).left, right |-> horizontal(r).right,
                     top |-> vertical(r).top, bottom |-> vertical(r).bottom]
    IN [padding |-> mixed(style.padding),
        border |-> mixed(style.border),
        padding_border |-> rect_add(mixed(style.padding), mixed(style.border))]

\* compute: padding, border and their sum
leaf_padding_border(style, parent_size) ==
    LET padding == rect_resolve_or_zero(style.padding, parent_size.width)
        border == rect_resolve_or_zero(style.border, parent_size.width)
    IN [padding |-> padding, border |-> border, padding_border |-> rect_add(padding, border)]

\* A content box inset whose gutter is reserved on the scrolling axis itself.
leaf_content_box_inset_untransposed(style, padding_border) ==
    LET scrollbar_gutter == PointOf(IF style.overflow.x = "Scroll" THEN style.scrollbar_width ELSE 0,
                                    IF style.overflow.y = "Scroll" THEN style.scrollbar_width ELSE 0)
    IN [padding_border EXCEPT !.right = @ + scrollbar_gutter.x,
                              !.bottom = @ + scrollbar_gutter.y]

\* compute: the scrollbar gutter and the content box inset
leaf_content_box_inset(style, padding_border) ==
    LET overflow_t == transpose(style.overflow)
        scrollbar_gutter == PointOf(IF overflow_t.x = "Scroll" THEN style.scrollbar_width ELSE 0,
                                    IF overflow_t.y = "Scroll" THEN style.scrollbar_width ELSE 0)
    IN [padding_border EXCEPT !.right = @ + scrollbar_gutter.x,
                              !.bottom = @ + scrollbar_gutter.y]

\* A test of the styles that forgets the position.
has_styles_preventing_any_position(style, padding, border) ==
    \/ style.display # "Block"
    \/ is_scroll_container(style.overflow.x)
    \/ is_scroll_container(style.overflow.y)
    \/ padding.top > 0
    \/ padding.bottom > 0
    \/ border.top > 0
    \/ border.bottom > 0

\* compute: has_styles_preventing_being_collapsed_through, built with block_layout
has_styles_preventing_being_collapsed_through(style, padding, border) ==
    LET is_block == style.display = "Block"
    IN \/ ~is_block
       \/ is_scroll_container(style.overflow.x)
       \/ is_scroll_container(style.overflow.y)
       \/ style.position = "Absolute"
       \/ padding.top > 0
       \/ padding.bottom > 0
       \/ border.top > 0
       \/ border.bottom > 0

\* what compute returns: the SizeBaselinesAndMargins (out) and, beside it, the calls
\* made to Measurable::measure (measure_calls)
leaf_result(size, collapse_through, calls) ==
    [out |-> [size |-> size,
              first_baselines |-> PointOf(None, None),
              top_margin |-> zero,
              bottom_margin |-> zero,
              margins_can_collapse_through |-> collapse_through],
     measure_calls |-> calls]

\* A known-size return that applies the padding and border floor before the clamp.
leaf_known_size_clamped_last(ns, padding_border, prevented, measurable) ==
    LET floor == SizeOf(Some(horizontal_axis_sum(padding_border)), Some(vertical_axis_sum(padding_border)))
        size == size_maybe_clamp(
                    size_maybe_max(SizeOf(ns.node_size.width.val, ns.node_size.height.val), floor),
                    ns.node_min_size, ns.node_max_size)
    IN leaf_result(size, ~prevented /\ size.height = 0 /\ ~measurable.some, <<>>)

\* compute: the early return when both width and height are known
leaf_known_size(ns, padding_border, prevented, measurable) ==
    LET floor == SizeOf(Some(horizontal_axis_sum(padding_border)), Some(vertical_axis_sum(padding_border)))
        size == size_maybe_max(
                    size_maybe_clamp(SizeOf(ns.node_size.width.val, ns.node_size.height.val),
                                     ns.node_min_size, ns.node_max_size),
                    floor)
    IN leaf_result(size, ~prevented /\ size.height = 0 /\ ~measurable.some, <<>>)

\* A measured return that enforces the aspect ratio on the width as well.
leaf_measured_symmetric(ns, padding_border, content_box_inset, prevented, measurable, known_dimensions, available_space) ==
    LET floor == SizeOf(Some(horizontal_axis_sum(padding_border)), Some(vertical_axis_sum(padding_border)))
        space ==
            SizeOf(map_definite_clamp_less_inset(
                       maybe_set(maybe_set(available_space.width, ns.node_size.width),
                                 ns.node_max_size.width),
                       ns.node_min_size.width, ns.node_max_size.width,
                       horizontal_axis_sum(content_box_inset)),
                   map_definite_clamp_less_inset(
                       maybe_set(maybe_set(available_space.height, ns.node_size.height),
                                 ns.node_max_size.height),
                       ns.node_min_size.height, ns.node_max_size.height,
                       vertical_axis_sum(content_box_inset)))
        measured_size == measure(measurable, known_dimensions, space)
        clamped_size ==
            size_maybe_clamp(
                size_unwrap_or(ns.node_size,
                               SizeOf(measured_size.width + horizontal_axis_sum(content_box_inset),
                                      measured_size.height + vertical_axis_sum(content_box_inset))),
                ns.node_min_size, ns.node_max_size)
        size == size_maybe_max(
                    SizeOf(Max(clamped_size.width,
                               IF ns.aspect_ratio.some
                               THEN TimesRatio(clamped_size.height, ns.aspect_ratio) ELSE 0),
                           Max(clamped_size.height,
                               IF ns.aspect_ratio.some
                               THEN OverRatio(clamped_size.width, ns.aspect_ratio) ELSE 0)),
                    floor)
    IN leaf_result(size,
                   ~prevented /\ size.height = 0 /\ measured_size.height = 0,
                   <<[known_dimensions |-> known_dimensions, available_space |-> space]>>)

\* compute: the return of a leaf that has a Measurable
leaf_measured(ns, padding_border, content_box_inset, prevented, measurable, known_dimensions, available_space) ==
    LET floor == SizeOf(Some(horizontal_axis_sum(padding_border)), Some(vertical_axis_sum(padding_border)))
        space ==
            SizeOf(map_definite_clamp_less_inset(
                       maybe_set(maybe_set(available_space.width, ns.node_size.width),
                                 ns.node_max_size.width),
                       ns.node_min_size.width, ns.node_max_size.width,
                       horizontal_axis_sum(content_box_inset)),
                   map_definite_clamp_less_inset(
                       maybe_set(maybe_set(available_space.height, ns.node_size.height),
                                 ns.node_max_size.height),
                       ns.node_min_size.height, ns.node_max_size.height,
                       vertical_axis_sum(content_box_inset)))
        measured_size == measure(measurable, known_dimensions, space)
        clamped_size ==
            size_maybe_clamp(
                size_unwrap_or(ns.node_size,
                               SizeOf(measured_size.width + horizontal_axis_sum(content_box_inset),
                                      measured_size.height + vertical_axis_sum(content_box_inset))),
                ns.node_min_size, ns.node_max_size)
        size == size_maybe_max(
                    SizeOf(clamped_size.width,
                           Max(clamped_size.height,
                               IF ns.aspect_ratio.some
                               THEN OverRatio(clamped_size.width, ns.aspect_ratio) ELSE 0)),
                    floor)
    IN leaf_result(size,
                   ~prevented /\ size.height = 0 /\ measured_size.height = 0,
                   <<[known_dimensions |-> known_dimensions, available_space |-> space]>>)

\* A return without Measurable that enforces the aspect ratio on the height only.
leaf_unmeasured_height_only(ns, padding_border, content_box_inset, prevented) ==
    LET size1 ==
            SizeOf(maybe_max(maybe_clamp(unwrap_or(ns.node_size.width, horizontal_axis_sum(content_box_inset)),
                                         ns.node_min_size.width, ns.node_max_size.width),
                             Some(horizontal_axis_sum(padding_border))),
                   maybe_max(maybe_clamp(unwrap_or(ns.node_size.height, vertical_axis_sum(content_box_inset)),
                                         ns.node_min_size.height, ns.node_max_size.height),
                             Some(vertical_axis_sum(padding_border))))
        size == SizeOf(size1.width,
                       Max(size1.height,
                           IF ns.aspect_ratio.some THEN OverRatio(size1.width, ns.aspect_ratio) ELSE 0))
    IN leaf_result(size, ~prevented /\ size.height = 0, <<>>)

\* compute: the return of a leaf without Measurable
leaf_unmeasured(ns, padding_border, content_box_inset, prevented) ==
    LET size1 ==
            SizeOf(maybe_max(maybe_clamp(unwrap_or(ns.node_size.width, horizontal_axis_sum(content_box_inset)),
                                         ns.node_min_size.width, ns.node_max_size.width),
                             Some(horizontal_axis_sum(padding_border))),
                   maybe_max(maybe_clamp(unwrap_or(ns.node_size.height, vertical_axis_sum(content_box_inset)),
                                         ns.node_min_size.height, ns.node_max_size.height),
                             Some(vertical_axis_sum(padding_border))))
        size == SizeOf(Max(size1.width,
                           IF ns.aspect_ratio.some THEN TimesRatio(size1.height, ns.aspect_ratio) ELSE 0),
                       Max(size1.height,
                           IF ns.aspect_ratio.some THEN OverRatio(size1.width, ns.aspect_ratio) ELSE 0))
    IN leaf_result(size, ~prevented /\ size.height = 0, <<>>)

\* A compute that turns to the Measurable before it looks at the known size.
compute_measuring_first(style, measurable, known_dimensions, parent_size, available_space, sizing_mode) ==
    LET ns == leaf_node_sizes(style, known_dimensions, parent_size, sizing_mode)
        pb == leaf_padding_border(style, parent_size)
        content_box_inset == leaf_content_box_inset(style, pb.padding_border)
        prevented == has_styles_preventing_being_collapsed_through(style, pb.padding, pb.border)
    IN IF measurable.some
       THEN leaf_measured(ns, pb.padding_border, content_box_inset, prevented,
                          measurable, known_dimensions, available_space)
       ELSE IF ns.node_size.width.some /\ ns.node_size.height.some
       THEN leaf_known_size(ns, pb.padding_border, prevented, measurable)
       ELSE leaf_unmeasured(ns, pb.padding_border, content_box_inset, prevented)

\* compute
compute(style, measurable, known_dimensions, parent_size, available_space, sizing_mode) ==
    LET ns == leaf_node_sizes(style, known_dimensions, parent_size, sizing_mode)
        pb == leaf_padding_border(style, parent_size)
        content_box_inset == leaf_content_box_inset(style, pb.padding_border)
        prevented == has_styles_preventing_being_collapsed_through(style, pb.padding, pb.border)
    IN IF ns.node_size.width.some /\ ns.node_size.height.some
       THEN leaf_known_size(ns, pb.padding_border, prevented, measurable)
       ELSE IF measurable.some
       THEN leaf_measured(ns, pb.padding_border, content_box_inset, prevented,
                          measurable, known_dimensions, available_space)
       ELSE leaf_unmeasured(ns, pb.padding_border, content_box_inset, prevented)

\* leaf perform_layout and measure_size, on a call's arguments
leaf_perform_layout(a) ==
    compute(a.style, a.measurable, a.known_dimensions, a.parent_size, a.available_space,
            a.sizing_mode).out

\* A measure_size that sizes the leaf by its content alone, whatever the sizing mode.
leaf_measure_size_by_content(a) ==
    compute(a.style, a.measurable, a.known_dimensions, a.parent_size, a.available_space,
            "ContentSize").out.size

\* leaf measure_size
leaf_measure_size(a) ==
    compute(a.style, a.measurable, a.known_dimensions, a.parent_size, a.available_space,
            a.sizing_mode).out.size

\* the calls to Measurable::measure that either of them makes
leaf_measure_calls(a) ==
    compute(a.style, a.measurable, a.known_dimensions, a.parent_size, a.available_space,
            a.sizing_mode).measure_calls

\* ------------------------------------- compute/grid/types/grid_track.rs
\* MinTrackSizingFunction and MaxTrackSizingFunction values
Fixed(lp) == [tag |-> "Fixed", unit |-> lp.unit, val |-> lp.val]
FitContent(lp) == [tag |-> "FitContent", unit |-> lp.unit, val |-> lp.val]
Fraction(f) == [tag |-> "Fraction", unit |-> "Flex", val |-> f]
TrackAuto == [tag |-> "Auto", unit |-> "None", val |-> 0]
TrackMinContent == [tag |-> "MinContent", unit |-> "None", val |-> 0]
TrackMaxContent == [tag |-> "MaxContent", unit |-> "None", val |-> 0]

\* GridTrack::new_with_kind
new_with_kind(kind, min_track_sizing_function, max_track_sizing_function) ==
    [kind |-> kind,
     is_collapsed |-> FALSE,
     min_track_sizing_function |-> min_track_sizing_function,
     max_track_sizing_function |-> max_track_sizing_function,
     offset |-> 0,
     base_size |-> 0,
     growth_limit |-> 0,
     content_alignment_adjustment |-> 0,
     item_incurred_increase |-> 0,
     base_size_planned_increase |-> 0,
     growth_limit_planned_increase |-> 0,
     infinitely_growable |-> FALSE]

\* GridTrack::new
new(min_track_sizing_function, max_track_sizing_function) ==
    new_with_kind("Track", min_track_sizing_function, max_track_sizing_function)

\* GridTrack::gutter
gutter(size) == new_with_kind("Gutter", Fixed(size), Fixed(size))

\* A collapse that also resets the sizes of the track.
collapse_resetting(self) ==
    [self EXCEPT !.is_collapsed = TRUE,
                 !.min_track_sizing_function = Fixed(Length(0)),
                 !.max_track_sizing_function = Fixed(Length(0)),
                 !.base_size = 0,
                 !.growth_limit = 0]

\* A collapse that zeroes the min sizing function and forgets the max one.
collapse_min_only(self) ==
    [self EXCEPT !.is_collapsed = TRUE,
                 !.min_track_sizing_function = Fixed(Length(0))]

\* A collapse that sets the flag and forgets the sizing functions.
collapse_flag_only(self) == [self EXCEPT !.is_collapsed = TRUE]

\* GridTrack::collapse
collapse(self) ==
    [self EXCEPT !.is_collapsed = TRUE,
                 !.min_track_sizing_function = Fixed(Length(0)),
                 !.max_track_sizing_function = Fixed(Length(0))]

\* MinTrackSizingFunction::uses_percentage, MaxTrackSizingFunction::uses_percentage
fn_uses_percentage(fn) == fn.tag \in {"Fixed", "FitContent"} /\ fn.unit = "Percent"

\* GridTrack::uses_percentage
uses_percentage(self) ==
    fn_uses_percentage(self.min_track_sizing_function)
        \/ fn_uses_percentage(self.max_track_sizing_function)

\* GridTrack::is_flexible
is_flexible(self) == self.max_track_sizing_function.tag = "Fraction"

\* A fit_content_limit that answers zero when the available space is indefinite.
fit_content_limit_zero_when_indefinite(self, axis_available_grid_space) ==
    LET max == self.max_track_sizing_function
    IN IF max.tag = "FitContent" /\ max.unit = "Length" THEN max.val
       ELSE IF max.tag = "FitContent" /\ max.unit = "Percent"
            THEN IF axis_available_grid_space.some
                 THEN MulPercent(axis_available_grid_space.val, max.val)
                 ELSE 0
       ELSE INFINITY

\* GridTrack::fit_content_limit
fit_content_limit(self, axis_available_grid_space) ==
    LET max == self.max_track_sizing_function
    IN IF max.tag = "FitContent" /\ max.unit = "Length" THEN max.val
       ELSE IF max.tag = "FitContent" /\ max.unit = "Percent"
            THEN IF axis_available_grid_space.some
                 THEN MulPercent(axis_available_grid_space.val, max.val)
                 ELSE INFINITY
       ELSE INFINITY

\* A flex_factor that counts every flexible track once.
flex_factor_unit(self) ==
    IF self.max_track_sizing_function.tag = "Fraction" THEN 1
    ELSE 0

\* GridTrack::flex_factor
flex_factor(self) ==
    IF self.max_track_sizing_function.tag = "Fraction" THEN self.max_track_sizing_function.val
    ELSE 0

\* A fit_content_limited_growth_limit that takes the larger of the two, and one that
\* answers how far the growth limit exceeds the fit-content limit.
fit_content_limited_growth_limit_larger(self, axis_available_grid_space) ==
    Max(self.growth_limit, fit_content_limit(self, axis_available_grid_space))
fit_content_limited_growth_limit_excess(self, axis_available_grid_space) ==
    Max(self.growth_limit - fit_content_limit(self, axis_available_grid_space), 0)

\* GridTrack::fit_content_limited_growth_limit
fit_content_limited_growth_limit(self, axis_available_grid_space) ==
    Min(self.growth_limit, fit_content_limit(self, axis_available_grid_space))

\* ------------------------------------------------------------ the tree
Nodes == 1..NumNodes

\* A layout left in the tree by an earlier, non-hidden pass.
StaleLayout == [order |-> NumNodes, size |-> SizeOf(MaxLen, MaxLen), location |-> PointOf(MaxLen, 1)]

RECURSIVE SortedSeq(_)
SortedSeq(S) ==
    IF S = {} THEN <<>>
    ELSE LET m == CHOOSE x \in S : \A y \in S : x <= y
         IN <<m>> \o SortedSeq(S \ {m})

\* Every rooted tree on Nodes with node 1 as root: node i > 1 hangs below a smaller node.
ParentMaps == {p \in [Nodes \ {1} -> Nodes] : \A i \in Nodes \ {1} : p[i] < i}
ChildrenOf(p) == [n \in Nodes |-> SortedSeq({i \in Nodes \ {1} : p[i] = n})]

\* LayoutTree::child_count, LayoutTree::child
child_count(node) == Len(children[node])
child(node, index) == children[node][index + 1]

RECURSIVE Descendants(_)
Descendants(node) ==
    LET cs == {children[node][i] : i \in 1..Len(children[node])}
    IN cs \cup UNION {Descendants(c) : c \in cs}

ParentOf(n) == CHOOSE p \in Nodes : \E i \in 1..Len(children[p]) : children[p][i] = n
SiblingIndex(n) == CHOOSE i \in 0..(NumNodes - 1) : child(ParentOf(n), i) = n

\* ------------------------------------------------ compute/mod.rs: hidden
\* Variants of perform_hidden_layout_inner with a slip in them: one that does not
\* recurse, one that numbers the nodes with a running counter, one that keeps
\* counting from the order already stored.
hidden_inner_no_recursion(st, node, order) ==
    [layout |-> [st.layout EXCEPT ![node] = with_order(order)], trace |-> Append(st.trace, node)]

RECURSIVE hidden_inner_global_counter(_, _, _), hidden_children_global_counter(_, _, _)
hidden_inner_global_counter(st, node, order) ==
    hidden_children_global_counter(
        [layout |-> [st.layout EXCEPT ![node] = with_order(Len(st.trace))],
         trace |-> Append(st.trace, node)], node, 0)
hidden_children_global_counter(st, node, order) ==
    IF order >= child_count(node) THEN st
    ELSE hidden_children_global_counter(
             hidden_inner_global_counter(st, child(node, order), order), node, order + 1)

RECURSIVE hidden_inner_accumulating(_, _, _), hidden_children_accumulating(_, _, _)
hidden_inner_accumulating(st, node, order) ==
    hidden_children_accumulating(
        [layout |-> [st.layout EXCEPT ![node] = with_order((st.layout[node].order + order + 1) % (NumNodes + 2))],
         trace |-> Append(st.trace, node)], node, 0)
hidden_children_accumulating(st, node, order) ==
    IF order >= child_count(node) THEN st
    ELSE hidden_children_accumulating(
             hidden_inner_accumulating(st, child(node, order), order), node, order + 1)

\* perform_hidden_layout_inner; st = [layout, trace] is the tree's layout store and
\* the sequence of layout_mut calls made so far.  `order as _` (usize to u32) is the
\* identity on the sibling indices a bounded tree has.
RECURSIVE perform_hidden_layout_inner(_, _, _), hidden_for_children(_, _, _)
perform_hidden_layout_inner(st, node, order) ==
    hidden_for_children([layout |-> [st.layout EXCEPT ![node] = with_order(order)],
                         trace |-> Append(st.trace, node)],
                        node, 0)

\* the loop `for order in 0..tree.child_count(node)`, from index `order` on
hidden_for_children(st, node, order) ==
    IF order >= child_count(node) THEN st
    ELSE hidden_for_children(perform_hidden_layout_inner(st, child(node, order), order), node, order + 1)

\* perform_hidden_layout
perform_hidden_layout(lay, node) == hidden_for_children([layout |-> lay, trace |-> <<>>], node, 0)

\* A measure_size that commits layouts the way perform_layout does.
hidden_measure_size_writing(lay, node) == perform_hidden_layout(lay, node).layout

\* HiddenAlgorithm::measure_size, its effect on the layout store: none
hidden_measure_size_store(lay, node) == lay

\* ----------------------------------------------------- tree/node.rs
\* Cache: the set of call shapes whose results are stored; Cache::new and
\* Cache::clear leave it empty
CallShapes == {"measure_size", "perform_layout"}
cache_new == {}
cache_clear(self) == {}
cache_store(self, shape) == self \cup {shape}

\* the NodeData of a node, as far as the model keeps it
NodeData(node) == [layout |-> layout[node], needs_measure |-> FALSE, cache |-> cache[node]]

\* NodeData::mark_dirty
mark_dirty(self) == [self EXCEPT !.cache = cache_clear(self.cache)]

notTreeVars == <<marginVars, gridVars>>
notMarginVars == <<treeVars, gridVars>>
notGridVars == <<treeVars, marginVars>>

\* HiddenAlgorithm::perform_layout
HiddenPerformLayout(node) ==
    LET st == perform_hidden_layout(layout, node)
    IN /\ layout' = st.layout
       /\ trace' = st.trace
       /\ call' = [op |-> "hidden_perform_layout", node |-> node, ret |-> hidden.size,
                   repeat |-> (call.op = "hidden_perform_layout" /\ call.node = node)]
       /\ UNCHANGED <<children, leaf, cache>>
       /\ UNCHANGED notTreeVars

\* HiddenAlgorithm::measure_size
HiddenMeasureSize(node) ==
    /\ layout' = hidden_measure_size_store(layout, node)
    /\ trace' = <<>>
    /\ call' = [op |-> "hidden_measure_size", node |-> node, ret |-> SizeZero,
                repeat |-> (call.op = "hidden_measure_size" /\ call.node = node)]
    /\ UNCHANGED <<children, leaf, cache>>
    /\ UNCHANGED notTreeVars

\* a style or child-tree mutation of the node: NodeData::mark_dirty on its data
MarkDirty(node) ==
    /\ cache' = [cache EXCEPT ![node] = mark_dirty(NodeData(node)).cache]
    /\ call' = [op |-> "mark_dirty", node |-> node, ret |-> SizeZero, repeat |-> FALSE]
    /\ trace' = <<>>
    /\ UNCHANGED <<children, layout, leaf>>
    /\ UNCHANGED notTreeVars

\* a layout pass stores the result of a call on the node in the node's cache
CacheStore(node, shape) ==
    /\ cache' = [cache EXCEPT ![node] = cache_store(@, shape)]
    /\ call' = [op |-> "cache_store", node |-> node, ret |-> SizeZero, repeat |-> FALSE]
    /\ trace' = <<>>
    /\ UNCHANGED <<children, layout, leaf>>
    /\ UNCHANGED notTreeVars

\* Style::DEFAULT
DefaultStyle ==
    [display |-> "Flex",
     position |-> "Relative",
     overflow |-> PointOf("Visible", "Visible"),
     scrollbar_width |-> 0,
     size |-> SizeOf(Auto, Auto),
     min_size |-> SizeOf(Auto, Auto),
     max_size |-> SizeOf(Auto, Auto),
     aspect_ratio |-> NoRatio,
     padding |-> [left |-> Length(0), right |-> Length(0), top |-> Length(0), bottom |-> Length(0)],
     border |-> [left |-> Length(0), right |-> Length(0), top |-> Length(0), bottom |-> Length(0)]]

LeafArgs(style, measurable, known_dimensions, parent_size, available_space, sizing_mode, collapsible) ==
    [style |-> style, measurable |-> measurable, known_dimensions |-> known_dimensions,
     parent_size |-> parent_size, available_space |-> available_space,
     sizing_mode |-> sizing_mode, vertical_margins_are_collapsible |-> collapsible]

NoResult == [some |-> FALSE, val |-> hidden]
NoLeafCall ==
    [op |-> "none",
     args |-> LeafArgs(DefaultStyle, NoMeasurable, NONE, NONE, SizeOf(MaxContent, MaxContent),
                       "InherentSize", [start |-> FALSE, end |-> FALSE]),
     size |-> SizeZero,
     result |-> NoResult,
     measure_calls |-> <<>>]

\* leaf perform_layout
LeafPerformLayout(args) ==
    /\ leaf' = [op |-> "leaf_perform_layout", args |-> args,
                size |-> leaf_perform_layout(args).size,
                result |-> [some |-> TRUE, val |-> leaf_perform_layout(args)],
                measure_calls |-> leaf_measure_calls(args)]
    /\ UNCHANGED <<children, layout, trace, call, cache>>
    /\ UNCHANGED notTreeVars

\* leaf measure_size
LeafMeasureSize(args) ==
    /\ leaf' = [op |-> "leaf_measure_size", args |-> args,
                size |-> leaf_measure_size(args),
                result |-> NoResult,
                measure_calls |-> leaf_measure_calls(args)]
    /\ UNCHANGED <<children, layout, trace, call, cache>>
    /\ UNCHANGED notTreeVars

\* ------------------------------------------- margin collapsing chains
Margins == (0 - MaxMargin)..MaxMargin

\* a chain starts from CollapsibleMarginSet::zero()
MarginZero ==
    /\ marginSet' = zero
    /\ seen' = {}
    /\ resolved' = None
    /\ UNCHANGED <<otherSet, otherSeen>>
    /\ UNCHANGED notMarginVars

\* a chain starts from CollapsibleMarginSet::from_margin(margin)
MarginFrom(margin) ==
    /\ marginSet' = from_margin(margin)
    /\ seen' = {margin}
    /\ resolved' = None
    /\ UNCHANGED <<otherSet, otherSeen>>
    /\ UNCHANGED notMarginVars

\* marginSet = marginSet.collapse_with_margin(margin)
CollapseWithMargin(margin) ==
    /\ marginSet' = collapse_with_margin(marginSet, margin)
    /\ seen' = seen \cup {margin}
    /\ resolved' = None
    /\ UNCHANGED <<otherSet, otherSeen>>
    /\ UNCHANGED notMarginVars

\* marginSet = marginSet.collapse_with_set(otherSet)
CollapseWithSet ==
    /\ marginSet' = collapse_with_set(marginSet, otherSet)
    /\ seen' = seen \cup otherSeen
    /\ resolved' = None
    /\ UNCHANGED <<otherSet, otherSeen>>
    /\ UNCHANGED notMarginVars

\* the caller turns to the neighbouring chain
SwapChains ==
    /\ marginSet' = otherSet
    /\ seen' = otherSeen
    /\ otherSet' = marginSet
    /\ otherSeen' = seen
    /\ resolved' = None
    /\ UNCHANGED notMarginVars

\* marginSet.resolve()
Resolve ==
    /\ resolved' = Some(resolve(marginSet))
    /\ UNCHANGED <<marginSet, seen, otherSet, otherSeen>>
    /\ UNCHANGED notMarginVars

\* ------------------------------------------------- one grid axis
Lengths == 0..MaxLen
LengthPercentages == {Length(l) : l \in Lengths} \cup {Percent(k) : k \in 0..PercentDen}
AxisSpaces == {Definite(PercentDen * i) : i \in 0..MaxSpace} \cup {MinContent, MaxContent}

\* The (min, max) pairs a track list is written with: a length or percentage, the
\* keywords, fit-content(limit), a flex factor, and minmax(length, flex factor).
TrackSizingFunctions ==
    {<<Fixed(lp), Fixed(lp)>> : lp \in LengthPercentages}
        \cup {<<TrackAuto, TrackAuto>>, <<TrackMinContent, TrackMinContent>>,
              <<TrackMaxContent, TrackMaxContent>>}
        \cup {<<TrackAuto, FitContent(lp)>> : lp \in LengthPercentages}
        \cup {<<TrackAuto, Fraction(f)>> : f \in 1..MaxFlex}
        \cup {<<Fixed(Length(l)), Fraction(f)>> : l \in Lengths, f \in 1..MaxFlex}

NoLimitCall == [op |-> "none", index |-> 0, arg |-> None, ret |-> 0]

RECURSIVE SumBase(_, _)
SumBase(ts, S) ==
    IF S = {} THEN 0
    ELSE LET i == CHOOSE x \in S : TRUE IN ts[i].base_size + SumBase(ts, S \ {i})

RECURSIVE SumFlex(_, _)
SumFlex(ts, S) ==
    IF S = {} THEN 0
    ELSE LET i == CHOOSE x \in S : TRUE IN flex_factor(ts[i]) + SumFlex(ts, S \ {i})

\* MinTrackSizingFunction::is_intrinsic, MaxTrackSizingFunction::is_intrinsic
is_intrinsic(fn) == fn.tag \in {"MinContent", "MaxContent", "Auto", "FitContent"}

\* GridTrack::has_intrinsic_sizing_function
has_intrinsic_sizing_function(self) ==
    is_intrinsic(self.min_track_sizing_function) \/ is_intrinsic(self.max_track_sizing_function)

\* the definite value of a sizing function: a length, or a percentage of a definite space
definite_value(fn, space) ==
    IF fn.tag # "Fixed" THEN None
    ELSE IF fn.unit = "Length" THEN Some(fn.val)
    ELSE IF space.some THEN Some(MulPercent(space.val, fn.val))
    ELSE None

\* Track sizing, step 1: base size from the min function, growth limit from the
\* max function, scratch values reset.
initialize_track(t, space) ==
    [t EXCEPT !.base_size = unwrap_or(definite_value(t.min_track_sizing_function, space), 0),
              !.growth_limit = unwrap_or(definite_value(t.max_track_sizing_function, space), INFINITY),
              !.content_alignment_adjustment = 0,
              !.item_incurred_increase = 0,
              !.base_size_planned_increase = 0,
              !.growth_limit_planned_increase = 0,
              !.infinitely_growable = FALSE]

\* Track sizing, step 2, for the items of one track: the track grows to the items'
\* min-content contribution (base size) and max-content contribution (growth limit);
\* a growth limit still infinite at the end of the pass becomes the base size.
resolve_intrinsic_track(t, min_contribution, max_contribution) ==
    LET min == t.min_track_sizing_function
        max == t.max_track_sizing_function
        base == IF is_intrinsic(min) THEN Max(t.base_size, min_contribution) ELSE t.base_size
        wanted == IF max.tag = "MinContent" THEN min_contribution ELSE max_contribution
        limit == IF ~is_intrinsic(max) THEN t.growth_limit
                 ELSE IF t.growth_limit = INFINITY THEN Max(base, wanted)
                 ELSE Max(t.growth_limit, Max(base, wanted))
    IN [t EXCEPT !.base_size = base,
                 !.growth_limit = IF limit = INFINITY THEN base ELSE Max(limit, base),
                 !.infinitely_growable = is_intrinsic(max) /\ t.growth_limit = INFINITY /\ wanted > 0]

\* Track sizing, step 3: the free space goes, track by track, to the tracks whose
\* growth limit exceeds their base size, each capped at its fit-content limited growth limit.
RECURSIVE maximise_tracks(_, _, _, _)
maximise_tracks(ts, i, free, space) ==
    IF i > Len(ts) \/ free <= 0 THEN ts
    ELSE LET cap == fit_content_limited_growth_limit(ts[i], space)
             room == IF ts[i].growth_limit > ts[i].base_size /\ cap > ts[i].base_size
                     THEN cap - ts[i].base_size ELSE 0
             given == Min(free, room)
         IN maximise_tracks([ts EXCEPT ![i].base_size = @ + given], i + 1, free - given, space)

\* Track sizing, step 4: the largest fr size that fits; a flexible track whose share
\* would be below its base size is frozen at its base size and the size recomputed.
RECURSIVE find_size_of_fr(_, _, _)
find_size_of_fr(ts, space, frozen) ==
    LET flexible == {i \in DOMAIN ts : is_flexible(ts[i]) /\ i \notin frozen}
        used == SumBase(ts, DOMAIN ts \ flexible)
        factors == SumFlex(ts, flexible)
        fr == IF factors = 0 THEN 0 ELSE Max(0, space - used) \div factors
        below == {i \in flexible : fr * flex_factor(ts[i]) < ts[i].base_size}
    IN IF below = {} THEN fr ELSE find_size_of_fr(ts, space, frozen \cup below)

expand_flexible_tracks(ts, space) ==
    LET fr == find_size_of_fr(ts, space, {})
    IN [i \in DOMAIN ts |->
           IF is_flexible(ts[i])
           THEN [ts[i] EXCEPT !.base_size = Max(@, fr * flex_factor(ts[i]))]
           ELSE ts[i]]

\* Track sizing, step 5: the free space is shared equally among the tracks whose max
\* function is auto.
stretch_auto_tracks(ts, space) ==
    LET autos == {i \in DOMAIN ts : ts[i].max_track_sizing_function.tag = "Auto"}
        free == space - SumBase(ts, DOMAIN ts)
    IN IF autos = {} \/ free <= 0 THEN ts
       ELSE [i \in DOMAIN ts |->
                IF i \in autos
                THEN [ts[i] EXCEPT !.base_size = @ + (free \div Cardinality(autos))]
                ELSE ts[i]]

\* placement: each track starts where the tracks before it end
place_tracks(ts) == [i \in DOMAIN ts |-> [ts[i] EXCEPT !.offset = SumBase(ts, 1..(i - 1))]]

\* the five passes and placement in a row, under one pair of item contributions
size_axis(ts, space, min_contribution, max_contribution) ==
    LET initialized == [i \in DOMAIN ts |-> initialize_track(ts[i], into_option(space))]
        intrinsic == [i \in DOMAIN ts |->
                         resolve_intrinsic_track(initialized[i], min_contribution, max_contribution)]
        maximised == IF space.tag = "Definite"
                     THEN maximise_tracks(intrinsic, 1, space.val - SumBase(intrinsic, DOMAIN ts),
                                          into_option(space))
                     ELSE intrinsic
        expanded == IF space.tag = "Definite" THEN expand_flexible_tracks(maximised, space.val)
                    ELSE maximised
    IN place_tracks(IF space.tag = "Definite" THEN stretch_auto_tracks(expanded, space.val)
                    ELSE expanded)

\* a track is created from its sizing functions
TrackNew(fns) ==
    /\ gridPhase = "create"
    /\ Len(tracks) < MaxTracks
    /\ tracks' = Append(tracks, new(fns[1], fns[2]))
    /\ UNCHANGED <<gridPhase, axisSpace, limitCall>>
    /\ UNCHANGED notGridVars

\* the tracks of an axis are created from its track template, one per entry
TrackTemplate(template) ==
    /\ gridPhase = "create"
    /\ tracks = <<>>
    /\ tracks' = [i \in DOMAIN template |-> new(template[i][1], template[i][2])]
    /\ UNCHANGED <<gridPhase, axisSpace, limitCall>>
    /\ UNCHANGED notGridVars

\* a gutter is created from the gap size
TrackGutter(size) ==
    /\ gridPhase = "create"
    /\ Len(tracks) < MaxTracks
    /\ tracks' = Append(tracks, gutter(size))
    /\ UNCHANGED <<gridPhase, axisSpace, limitCall>>
    /\ UNCHANGED notGridVars

\* tracks[i].collapse(), while the track list is set up
TrackCollapse(i) ==
    /\ gridPhase = "create"
    /\ i \in DOMAIN tracks
    /\ tracks' = [tracks EXCEPT ![i] = collapse(tracks[i])]
    /\ UNCHANGED <<gridPhase, axisSpace, limitCall>>
    /\ UNCHANGED notGridVars

\* sizing of the axis begins under an available space (step 1)
InitializeTrackSizes(space) ==
    /\ gridPhase = "create"
    /\ tracks # <<>>
    /\ axisSpace' = space
    /\ tracks' = [i \in DOMAIN tracks |-> initialize_track(tracks[i], into_option(space))]
    /\ gridPhase' = "initialized"
    /\ limitCall' = NoLimitCall
    /\ UNCHANGED notGridVars

\* step 2, with the contributions of the items
ResolveIntrinsicTrackSizes(min_contribution, max_contribution) ==
    /\ gridPhase = "initialized"
    /\ min_contribution <= max_contribution
    /\ tracks' = [i \in DOMAIN tracks |->
                     resolve_intrinsic_track(tracks[i], min_contribution, max_contribution)]
    /\ gridPhase' = "intrinsic"
    /\ limitCall' = NoLimitCall
    /\ UNCHANGED axisSpace
    /\ UNCHANGED notGridVars

\* step 3
MaximiseTracks ==
    /\ gridPhase = "intrinsic"
    /\ tracks' = IF axisSpace.tag = "Definite"
                 THEN maximise_tracks(tracks, 1, axisSpace.val - SumBase(tracks, DOMAIN tracks),
                                      into_option(axisSpace))
                 ELSE tracks
    /\ gridPhase' = "maximised"
    /\ limitCall' = NoLimitCall
    /\ UNCHANGED axisSpace
    /\ UNCHANGED notGridVars

\* step 4
ExpandFlexibleTracks ==
    /\ gridPhase = "maximised"
    /\ tracks' = IF axisSpace.tag = "Definite"
                 THEN expand_flexible_tracks(tracks, axisSpace.val)
                 ELSE tracks
    /\ gridPhase' = "expanded"
    /\ limitCall' = NoLimitCall
    /\ UNCHANGED axisSpace
    /\ UNCHANGED notGridVars

\* step 5, then placement
StretchAutoTracks ==
    /\ gridPhase = "expanded"
    /\ tracks' = place_tracks(IF axisSpace.tag = "Definite"
                              THEN stretch_auto_tracks(tracks, axisSpace.val)
                              ELSE tracks)
    /\ gridPhase' = "placed"
    /\ limitCall' = NoLimitCall
    /\ UNCHANGED axisSpace
    /\ UNCHANGED notGridVars

\* tracks[i].fit_content_limit(axis_available_grid_space), asked during sizing
FitContentLimit(i) ==
    /\ gridPhase \in {"initialized", "intrinsic"}
    /\ i \in DOMAIN tracks
    /\ limitCall' = [op |-> "fit_content_limit", index |-> i, arg |-> into_option(axisSpace),
                     ret |-> fit_content_limit(tracks[i], into_option(axisSpace))]
    /\ UNCHANGED <<tracks, gridPhase, axisSpace>>
    /\ UNCHANGED notGridVars

\* tracks[i].fit_content_limited_growth_limit(axis_available_grid_space), asked during sizing
FitContentLimitedGrowthLimit(i) ==
    /\ gridPhase \in {"initialized", "intrinsic"}
    /\ i \in DOMAIN tracks
    /\ limitCall' = [op |-> "fit_content_limited_growth_limit", index |-> i,
                     arg |-> into_option(axisSpace),
                     ret |-> fit_content_limited_growth_limit(tracks[i], into_option(axisSpace))]
    /\ UNCHANGED <<tracks, gridPhase, axisSpace>>
    /\ UNCHANGED notGridVars

\* available_space.compute_free_space(used_space) on the space of the axis
ComputeFreeSpace(used_space) ==
    /\ limitCall' = [op |-> "compute_free_space", index |-> 0, arg |-> Some(used_space),
                     ret |-> compute_free_space(axisSpace, used_space)]
    /\ UNCHANGED <<tracks, gridPhase, axisSpace>>
    /\ UNCHANGED notGridVars

\* tracks[i].collapse() on a track by itself, whatever sizes it holds
CollapseTrack(i) ==
    /\ gridPhase = "value"
    /\ i \in DOMAIN tracks
    /\ tracks' = [tracks EXCEPT ![i] = collapse(tracks[i])]
    /\ limitCall' = [op |-> "collapse", index |-> i, arg |-> None, ret |-> 0]
    /\ UNCHANGED <<gridPhase, axisSpace>>
    /\ UNCHANGED notGridVars

\* ------------------------------------------------------- specifications
TreeStart ==
    /\ \E p \in ParentMaps : children = ChildrenOf(p)
    /\ layout \in [Nodes -> {LayoutNew, StaleLayout}]
    /\ trace = <<>>
    /\ call = [op |-> "none", node |-> 1, ret |-> SizeZero, repeat |-> FALSE]
    /\ leaf = NoLeafCall
    /\ cache = [n \in Nodes |-> cache_new]

TreeIdle ==
    /\ children = [n \in Nodes |-> <<>>]
    /\ layout = [n \in Nodes |-> LayoutNew]
    /\ trace = <<>>
    /\ call = [op |-> "none", node |-> 1, ret |-> SizeZero, repeat |-> FALSE]
    /\ leaf = NoLeafCall
    /\ cache = [n \in Nodes |-> cache_new]

MarginStart ==
    /\ marginSet = zero
    /\ seen = {}
    /\ otherSet = zero
    /\ otherSeen = {}
    /\ resolved = None

GridIdle ==
    /\ tracks = <<>>
    /\ gridPhase = "create"
    /\ axisSpace = MaxContent
    /\ limitCall = NoLimitCall

vars == <<treeVars, marginVars, gridVars>>

\* The leaves laid out beside the hidden subtrees: a block of fixed width with
\* padding, with and without text, under a definite available space, in both sizing modes.
BoxStyle ==
    [DefaultStyle EXCEPT !.display = "Block",
                         !.size = SizeOf(Length(MaxLen), Auto),
                         !.padding = [left |-> Length(1), right |-> Length(1),
                                      top |-> Length(1), bottom |-> Length(1)]]
TreeLeafArgs ==
    {LeafArgs(BoxStyle, measurable, NONE, NONE, SizeOf(Definite(1), Definite(1)), sizing_mode,
              [start |-> FALSE, end |-> FALSE]) :
        measurable \in {NoMeasurable, Measurable("text", MaxLen, 1)},
        sizing_mode \in {"ContentSize", "InherentSize"}}

\* the hidden algorithm and the leaf algorithm on a tree
InitTree == TreeStart /\ MarginStart /\ GridIdle

NextTree ==
    \/ \E node \in Nodes : HiddenPerformLayout(node)
    \/ \E node \in Nodes : HiddenMeasureSize(node)
    \/ \E args \in TreeLeafArgs : LeafPerformLayout(args)
    \/ \E args \in TreeLeafArgs : LeafMeasureSize(args)

SpecTree == InitTree /\ [][NextTree]_vars

\* margin collapsing
InitMargin == TreeIdle /\ MarginStart /\ GridIdle

NextMargin ==
    \/ MarginZero
    \/ \E margin \in Margins : MarginFrom(margin)
    \/ \E margin \in Margins : CollapseWithMargin(margin)
    \/ CollapseWithSet
    \/ SwapChains
    \/ Resolve

SpecMargin == InitMargin /\ [][NextMargin]_vars

\* the tracks of one grid axis, from creation to placement
InitGrid == TreeIdle /\ MarginStart /\ GridIdle

NextGrid ==
    \/ \E fns \in TrackSizingFunctions : TrackNew(fns)
    \/ \E size \in LengthPercentages : TrackGutter(size)
    \/ \E i \in 1..MaxTracks : TrackCollapse(i)
    \/ \E space \in AxisSpaces : InitializeTrackSizes(space)
    \/ \E min_contribution \in Lengths, max_contribution \in Lengths :
           ResolveIntrinsicTrackSizes(min_contribution, max_contribution)
    \/ MaximiseTracks
    \/ ExpandFlexibleTracks
    \/ StretchAutoTracks
    \/ \E i \in 1..MaxTracks : FitContentLimit(i)
    \/ \E i \in 1..MaxTracks : FitContentLimitedGrowthLimit(i)

SpecGrid == InitGrid /\ [][NextGrid]_vars

\* An axis with flexible tracks.  Lengths and spaces are multiples of FrUnit, the
\* least common multiple of the flex factor sums a template can have, so that the
\* division of the leftover space by a flex factor sum is exact.
RECURSIVE Gcd(_, _)
Gcd(a, b) == IF b = 0 THEN a ELSE Gcd(b, a % b)
RECURSIVE LcmUpTo(_)
LcmUpTo(n) == IF n <= 1 THEN 1 ELSE (LcmUpTo(n - 1) * n) \div Gcd(LcmUpTo(n - 1), n)
FrUnit == LcmUpTo(MaxFlex * TemplateLen)

FlexLengths == {FrUnit * l : l \in Lengths}
FlexSpaces == {Definite(FrUnit * i) : i \in 0..(2 * MaxSpace)} \cup {MinContent, MaxContent}
FlexTemplateFunctions ==
    {<<Fixed(Length(l)), Fixed(Length(l))>> : l \in FlexLengths}
        \cup {<<TrackAuto, TrackAuto>>}
        \cup {<<TrackAuto, Fraction(f)>> : f \in 1..MaxFlex}
        \cup {<<Fixed(Length(l)), Fraction(f)>> : l \in FlexLengths, f \in 1..MaxFlex}
FlexTemplates == UNION {[1..n -> FlexTemplateFunctions] : n \in 1..TemplateLen}

InitFlex == TreeIdle /\ MarginStart /\ GridIdle

NextFlex ==
    \/ \E template \in FlexTemplates : TrackTemplate(template)
    \/ \E space \in FlexSpaces : InitializeTrackSizes(space)
    \/ \E min_contribution \in FlexLengths, max_contribution \in FlexLengths :
           ResolveIntrinsicTrackSizes(min_contribution, max_contribution)
    \/ MaximiseTracks
    \/ ExpandFlexibleTracks
    \/ StretchAutoTracks

SpecFlex == InitFlex /\ [][NextFlex]_vars

\* One leaf call.  The arguments are drawn when the call is set up; lengths are
\* multiples of PercentDen, and the aspect ratios are PercentDen and 1 / PercentDen,
\* so that percentages and ratios of them are exact.
Edges(lp) == [left |-> lp, right |-> lp, top |-> lp, bottom |-> lp]
LeafSizes ==
    {SizeOf(Auto, Auto), SizeOf(Length(2 * PercentDen), Auto), SizeOf(Auto, Length(2 * PercentDen)),
     SizeOf(Percent(1), Percent(1))}
LeafMinSizes == {SizeOf(Auto, Auto), SizeOf(Length(2 * PercentDen), Auto)}
LeafMaxSizes == {SizeOf(Auto, Auto), SizeOf(Length(PercentDen), Length(PercentDen))}
LeafRatios == {NoRatio, Ratio(PercentDen, 1), Ratio(1, PercentDen)}
LeafPaddingBorders ==
    {<<Edges(Length(0)), Edges(Length(0))>>,
     <<Edges(Length(PercentDen)), Edges(Length(0))>>,
     <<Edges(Percent(1)), Edges(Length(0))>>,
     <<Edges(Length(PercentDen)),
       [left |-> Length(PercentDen), right |-> Length(0), top |-> Percent(1), bottom |-> Length(0)]>>}
LeafOverflows == {PointOf("Visible", "Visible"), PointOf("Scroll", "Hidden"), PointOf("Hidden", "Scroll")}
LeafStyles ==
    {[DefaultStyle EXCEPT !.display = "Block",
                          !.size = size,
                          !.min_size = min_size,
                          !.max_size = max_size,
                          !.aspect_ratio = aspect_ratio,
                          !.padding = pb[1],
                          !.border = pb[2],
                          !.overflow = overflow,
                          !.scrollbar_width = PercentDen] :
        size \in LeafSizes, min_size \in LeafMinSizes, max_size \in LeafMaxSizes,
        aspect_ratio \in LeafRatios, pb \in LeafPaddingBorders, overflow \in LeafOverflows}
LeafMeasurables ==
    {NoMeasurable, Measurable("fixed", PercentDen, 2 * PercentDen), Measurable("text", 2 * PercentDen, PercentDen)}
LeafKnownDimensions ==
    {NONE, SizeOf(Some(PercentDen), None), SizeOf(None, Some(PercentDen)),
     SizeOf(Some(PercentDen), Some(PercentDen))}
LeafParentSizes ==
    {NONE, SizeOf(Some(2 * PercentDen), Some(4 * PercentDen)), SizeOf(Some(2 * PercentDen), None)}
LeafAvailableSpaces ==
    {SizeOf(Definite(2 * PercentDen), Definite(2 * PercentDen)), SizeOf(MinContent, MinContent),
     SizeOf(MaxContent, MaxContent)}
LeafCallArgs ==
    {LeafArgs(style, measurable, known_dimensions, parent_size, available_space, sizing_mode,
              [start |-> FALSE, end |-> FALSE]) :
        style \in LeafStyles, measurable \in LeafMeasurables,
        known_dimensions \in LeafKnownDimensions, parent_size \in LeafParentSizes,
        available_space \in LeafAvailableSpaces, sizing_mode \in {"ContentSize", "InherentSize"}}

LeafStart ==
    /\ children = [n \in Nodes |-> <<>>]
    /\ layout = [n \in Nodes |-> LayoutNew]
    /\ trace = <<>>
    /\ call = [op |-> "none", node |-> 1, ret |-> SizeZero, repeat |-> FALSE]
    /\ \E args \in LeafCallArgs : leaf = [NoLeafCall EXCEPT !.args = args]
    /\ cache = [n \in Nodes |-> cache_new]

InitLeaf == LeafStart /\ MarginStart /\ GridIdle

NextLeaf ==
    \/ LeafPerformLayout(leaf.args)
    \/ LeafMeasureSize(leaf.args)

SpecLeaf == InitLeaf /\ [][NextLeaf]_vars

\* A GridTrack and an AvailableSpace by themselves: a track or gutter that the sizing
\* passes have left with any base size, growth limit, offset and planned increase,
\* and the methods of the two called on them.
TrackValues ==
    {[t EXCEPT !.base_size = base_size,
               !.growth_limit = growth_limit,
               !.offset = offset,
               !.base_size_planned_increase = offset,
               !.infinitely_growable = (growth_limit = INFINITY)] :
        t \in {new(fns[1], fns[2]) : fns \in TrackSizingFunctions}
                  \cup {gutter(size) : size \in LengthPercentages},
        base_size \in Lengths, growth_limit \in {MaxLen, INFINITY}, offset \in {0, MaxLen}}
UsedSpaces == 0..(PercentDen * MaxSpace + 1)

InitTrack ==
    /\ TreeIdle /\ MarginStart
    /\ \E t \in TrackValues : tracks = <<t>>
    /\ gridPhase = "value"
    /\ axisSpace \in AxisSpaces
    /\ limitCall = NoLimitCall

NextTrack ==
    \/ \E used_space \in UsedSpaces : ComputeFreeSpace(used_space)
    \/ CollapseTrack(1)

SpecTrack == InitTrack /\ [][NextTrack]_vars

\* the caches of a tree: layout passes fill them, mutations of a node mark it dirty
InitDirty ==
    /\ MarginStart /\ GridIdle
    /\ \E p \in ParentMaps : children = ChildrenOf(p)
    /\ layout = [n \in Nodes |-> LayoutNew]
    /\ trace = <<>>
    /\ call = [op |-> "none", node |-> 1, ret |-> SizeZero, repeat |-> FALSE]
    /\ leaf = NoLeafCall
    /\ cache = [n \in Nodes |-> cache_new]

NextDirty ==
    \/ \E node \in Nodes, shape \in CallShapes : CacheStore(node, shape)
    \/ \E node \in Nodes : MarkDirty(node)

SpecDirty == InitDirty /\ [][NextDirty]_vars

\* One leaf call of a block or flex item, in flow or absolutely positioned, with
\* padding or border on one edge at a time, that may be of zero height, may have
\* content of zero height, and may have a max size above its size.
CaseStyles ==
    LET OneEdge(edge, lp) == [Edges(Length(0)) EXCEPT ![edge] = lp]
        PaddingBorders ==
            {<<Edges(Length(0)), Edges(Length(0))>>,
             <<OneEdge("left", Length(1)), Edges(Length(0))>>,
             <<OneEdge("top", Length(1)), Edges(Length(0))>>,
             <<OneEdge("bottom", Percent(1)), Edges(Length(0))>>,
             <<Edges(Length(0)), OneEdge("top", Percent(1))>>,
             <<Edges(Length(0)), OneEdge("bottom", Length(1))>>}
    IN
    {[DefaultStyle EXCEPT !.display = display,
                          !.position = position,
                          !.size = size,
                          !.max_size = max_size,
                          !.padding = pb[1],
                          !.border = pb[2],
                          !.overflow = overflow,
                          !.scrollbar_width = PercentDen] :
        display \in {"Block", "Flex"}, position \in {"Relative", "Absolute"},
        size \in {SizeOf(Auto, Auto), SizeOf(Length(PercentDen), Auto), SizeOf(Auto, Length(0))},
        max_size \in {SizeOf(Auto, Auto), SizeOf(Length(2 * PercentDen), Length(2 * PercentDen))},
        pb \in PaddingBorders,
        overflow \in {PointOf("Visible", "Visible"), PointOf("Hidden", "Visible"),
                      PointOf("Visible", "Scroll")}}
CaseCallArgs ==
    {LeafArgs(style, measurable, known_dimensions, SizeOf(Some(2 * PercentDen), None),
              available_space, sizing_mode, [start |-> FALSE, end |-> FALSE]) :
        style \in CaseStyles,
        measurable \in {NoMeasurable, Measurable("fixed", PercentDen, 0),
                        Measurable("text", 2 * PercentDen, PercentDen)},
        known_dimensions \in {NONE, SizeOf(Some(PercentDen), None), SizeOf(Some(PercentDen), Some(0))},
        available_space \in {SizeOf(Definite(4 * PercentDen), Definite(4 * PercentDen)),
                             SizeOf(MaxContent, MinContent)},
        sizing_mode \in {"ContentSize", "InherentSize"}}

InitLeafCases ==
    /\ MarginStart /\ GridIdle
    /\ children = [n \in Nodes |-> <<>>]
    /\ layout = [n \in Nodes |-> LayoutNew]
    /\ trace = <<>>
    /\ call = [op |-> "none", node |-> 1, ret |-> SizeZero, repeat |-> FALSE]
    /\ \E args \in CaseCallArgs : leaf = [NoLeafCall EXCEPT !.args = args]
    /\ cache = [n \in Nodes |-> cache_new]

SpecLeafCases == InitLeafCases /\ [][NextLeaf]_vars

\* ------------------------------------------------------------------ claims
IsZeroAtOrigin(l) == l.size = SizeZero /\ l.location = PointZero
Pos(n) == CHOOSE i \in 1..Len(trace) : trace[i] = n
Subtree(n) == {n} \cup Descendants(n)

\* C1: after hidden layout has run on a node, every descendant of that node, at any
\* depth, has a stored Layout of size (0,0) at location (0,0), whatever was stored
\* for it before.
C1_HiddenDescendantsZero ==
    call.op = "hidden_perform_layout" =>
        \A d \in Descendants(call.node) : IsZeroAtOrigin(layout[d])

\* a hidden layout ran on a node that has a grandchild, in a tree holding stale layouts
C1_Witness ==
    /\ call.op = "hidden_perform_layout"
    /\ layout[call.node] = StaleLayout
    /\ \E d \in Descendants(call.node) : ParentOf(d) # call.node

\* C2: HiddenAlgorithm::perform_layout(node) returns size (0,0) and leaves the
\* node's own stored Layout with size (0,0) and location (0,0).
C2_HiddenNodeItselfZero ==
    call.op = "hidden_perform_layout" =>
        /\ call.ret = SizeZero
        /\ IsZeroAtOrigin(layout[call.node])

\* C3: after hidden layout every descendant's order is its 0-based index among its
\* parent's children, and the descendants were written depth-first: each exactly
\* once, a parent before its children, a child's whole subtree before its next sibling.
C3_HiddenOrderIsSiblingIndex ==
    call.op = "hidden_perform_layout" =>
        LET ds == Descendants(call.node)
        IN /\ \A d \in ds : layout[d].order = SiblingIndex(d)
           /\ Len(trace) = Cardinality(ds)
           /\ {trace[i] : i \in 1..Len(trace)} = ds
           /\ \A d \in ds : ParentOf(d) # call.node => Pos(ParentOf(d)) < Pos(d)
           /\ \A s \in ds, t \in ds :
                  (ParentOf(s) = ParentOf(t) /\ SiblingIndex(s) < SiblingIndex(t))
                      => \A e \in Subtree(s) : Pos(e) < Pos(t)

\* two descendants under different parents share an order, and a child with a
\* subtree of its own has a later sibling
C3_Witness ==
    /\ call.op = "hidden_perform_layout"
    /\ \E a \in Descendants(call.node), b \in Descendants(call.node) :
           /\ ParentOf(a) # ParentOf(b)
           /\ layout[a].order = layout[b].order
    /\ \E s \in Descendants(call.node), t \in Descendants(call.node) :
           /\ ParentOf(s) = ParentOf(t)
           /\ SiblingIndex(s) < SiblingIndex(t)
           /\ Descendants(s) # {}
           /\ layout[t].order = 1

\* C4: measure_size writes no layout results: HiddenAlgorithm::measure_size returns
\* (0,0) and leaves every stored Layout as it was, and leaf measure_size returns what
\* its arguments determine and touches nothing of the tree.
C4_MeasureSizeWritesNothing ==
    [][/\ call'.op = "hidden_measure_size" => (layout' = layout /\ call'.ret = SizeZero)
       /\ (leaf' # leaf /\ leaf'.op = "leaf_measure_size")
              => /\ UNCHANGED <<children, layout, trace, call>>
                 /\ leaf'.size = leaf_measure_size(leaf'.args)]_vars

\* measure_size was called on a node whose subtree holds stale layouts, and on a leaf
C4_Witness ==
    /\ call.op = "hidden_measure_size"
    /\ Descendants(call.node) # {}
    /\ \A n \in Subtree(call.node) : layout[n] = StaleLayout
    /\ leaf.op = "leaf_measure_size"
    /\ leaf.size # SizeZero

\* C5: perform_layout is idempotent: a second HiddenAlgorithm::perform_layout on the
\* same node of the unmodified tree leaves every stored Layout and the return value
\* as the first left them, and leaf perform_layout returns the same result for the
\* same arguments.
C5_PerformLayoutIdempotent ==
    [][/\ (/\ call.op = "hidden_perform_layout"
           /\ call'.op = "hidden_perform_layout"
           /\ call'.node = call.node)
              => (layout' = layout /\ call'.ret = call.ret)
       /\ (/\ leaf.op = "leaf_perform_layout"
           /\ leaf'.op = "leaf_perform_layout"
           /\ leaf'.args = leaf.args)
              => leaf'.result = leaf.result]_vars

\* hidden layout ran twice in a row on a node with grandchildren
C5_Witness ==
    /\ call.op = "hidden_perform_layout"
    /\ call.repeat
    /\ \E d \in Descendants(call.node) : ParentOf(d) # call.node
    /\ leaf.op = "leaf_perform_layout"

MaxOf(S) == CHOOSE x \in S : \A y \in S : x >= y
MinOf(S) == CHOOSE x \in S : \A y \in S : x <= y
LargestPositiveSeen == MaxOf({m \in seen : m > 0} \cup {0})
MostNegativeSeen == MinOf({m \in seen : m < 0} \cup {0})

\* C6: margin collapsing is commutative: collapsing a then b into a set gives the
\* same set as collapsing b then a, for positive, zero and negative margins.
C6_CollapseCommutative ==
    \A a \in Margins, b \in Margins :
        collapse_with_margin(collapse_with_margin(marginSet, a), b)
            = collapse_with_margin(collapse_with_margin(marginSet, b), a)

\* a set that has collapsed several margins of both signs
C6_Witness ==
    /\ marginSet.positive > 0
    /\ marginSet.negative < 0
    /\ Cardinality(seen) >= 3
    /\ marginSet.positive < MaxMargin

\* C7: margin collapsing is idempotent: collapsing a margin a second time changes
\* neither the set nor its resolved value, and a set collapsed with itself is itself.
C7_CollapseIdempotent ==
    /\ \A m \in Margins :
           LET once == collapse_with_margin(marginSet, m)
               twice == collapse_with_margin(once, m)
           IN twice = once /\ resolve(twice) = resolve(once)
    /\ collapse_with_set(marginSet, marginSet) = marginSet

\* a set holding a positive and a negative margin, about to see a margin again
C7_Witness ==
    /\ marginSet.positive > 0
    /\ marginSet.negative < 0
    /\ resolved = Some(resolve(marginSet))
    /\ \E m \in seen : m > 0 /\ m < marginSet.positive

\* C8: the set holds the largest positive margin seen (0 if none) and the most
\* negative margin seen (0 if none), so positive >= 0 >= negative, and resolve()
\* returns their sum.
C8_LargestAndMostNegative ==
    /\ marginSet.positive = LargestPositiveSeen
    /\ marginSet.negative = MostNegativeSeen
    /\ marginSet.positive >= 0
    /\ 0 >= marginSet.negative
    /\ resolved.some => resolved.val = LargestPositiveSeen + MostNegativeSeen

\* resolve() was called on a chain of two positive and two negative margins
C8_Witness ==
    /\ resolved.some
    /\ Cardinality({m \in seen : m > 0}) >= 2
    /\ Cardinality({m \in seen : m < 0}) >= 2
    /\ resolved.val = MaxOf(seen) + MinOf(seen)
    /\ MaxOf(seen) + MinOf(seen) < MaxOf(seen)

C10_FitContentLimit ==
    limitCall.op = "fit_content_limit" =>
        LET max == tracks[limitCall.index].max_track_sizing_function
        IN /\ (max.tag = "FitContent" /\ max.unit = "Length") => limitCall.ret = max.val
           /\ (max.tag = "FitContent" /\ max.unit = "Percent" /\ limitCall.arg.some)
                  => limitCall.ret * PercentDen = limitCall.arg.val * max.val
           /\ (max.tag = "FitContent" /\ max.unit = "Percent" /\ ~limitCall.arg.some)
                  => (limitCall.ret = INFINITY /\ limitCall.ret # 0)
           /\ max.tag # "FitContent" => limitCall.ret = INFINITY

\* the limit of a fit-content(50%) track was asked under an indefinite space
C10_Witness ==
    /\ limitCall.op = "fit_content_limit"
    /\ ~limitCall.arg.some
    /\ tracks[limitCall.index].max_track_sizing_function = FitContent(Percent(1))

\* the fit-content limit as the track's max sizing function and the space define it
LimitOf(t, space) ==
    LET max == t.max_track_sizing_function
    IN IF max.tag # "FitContent" THEN INFINITY
       ELSE IF max.unit = "Length" THEN max.val
       ELSE IF space.some THEN (space.val * max.val) \div PercentDen
       ELSE INFINITY

\* C11: fit_content_limited_growth_limit is min(growth_limit, fit-content limit) with
\* infinity absorbed by min: it is one of the two and never larger than either, it is
\* the growth limit unchanged for every track that is not fit-content, and it is the
\* fit-content limit when the growth limit is infinity.
C11_LimitedGrowthLimitIsMin ==
    limitCall.op = "fit_content_limited_growth_limit" =>
        LET t == tracks[limitCall.index]
            limit == LimitOf(t, limitCall.arg)
        IN /\ limitCall.ret <= t.growth_limit
           /\ limitCall.ret <= limit
           /\ limitCall.ret \in {t.growth_limit, limit}
           /\ t.max_track_sizing_function.tag # "FitContent" => limitCall.ret = t.growth_limit
           /\ t.growth_limit = INFINITY => limitCall.ret = limit

\* the ceiling of a fit-content(length) track was asked while its growth limit was
\* infinite, and came out finite
C11_Witness ==
    /\ limitCall.op = "fit_content_limited_growth_limit"
    /\ tracks[limitCall.index].growth_limit = INFINITY
    /\ tracks[limitCall.index].max_track_sizing_function = FitContent(Length(1))
    /\ limitCall.ret = 1

\* the max sizing functions wider than fn: the same kind with a larger length or percentage
Wider(fn) ==
    IF fn.tag \notin {"FitContent", "Fixed"} THEN {}
    ELSE IF fn.unit = "Length"
         THEN {[fn EXCEPT !.val = l] : l \in (fn.val + 1)..(MaxLen + 1)}
    ELSE {[fn EXCEPT !.val = k] : k \in (fn.val + 1)..(PercentDen + 1)}
GrowthLimits == Lengths \cup {INFINITY}
Ceiling(t) == fit_content_limited_growth_limit(t, into_option(axisSpace))
FinalBaseSize(ts, i, min_contribution, max_contribution) ==
    size_axis(ts, axisSpace, min_contribution, max_contribution)[i].base_size

\* C12: widening a track's max sizing function, everything else equal, never lowers
\* the ceiling fit_content_limited_growth_limit gives the track, nor does raising its
\* growth limit; and the base size the track ends the sizing passes with is never
\* smaller under the wider function, whatever the items contribute.
C12_Monotone ==
    /\ \A i \in DOMAIN tracks :
           LET t == tracks[i]
           IN /\ \A g \in GrowthLimits :
                     g >= t.growth_limit => Ceiling([t EXCEPT !.growth_limit = g]) >= Ceiling(t)
              /\ ~t.is_collapsed =>
                     \A w \in Wider(t.max_track_sizing_function) :
                         LET wider == [t EXCEPT !.max_track_sizing_function = w]
                         IN /\ Ceiling(wider) >= Ceiling(t)
                            /\ \A g \in GrowthLimits :
                                   g >= t.growth_limit
                                       => Ceiling([wider EXCEPT !.growth_limit = g]) >= Ceiling(t)
                            /\ gridPhase = "placed" =>
                                   \A a \in Lengths, b \in Lengths :
                                       a <= b => FinalBaseSize([tracks EXCEPT ![i] = wider], i, a, b)
                                                     >= FinalBaseSize(tracks, i, a, b)
    /\ gridPhase = "placed" =>
           \E a \in Lengths, b \in Lengths : a <= b /\ tracks = size_axis(tracks, axisSpace, a, b)

\* a fit-content(1) track ended the passes at its limit, where fit-content(2) would
\* have let it end larger
C12_Witness ==
    /\ gridPhase = "placed"
    /\ \E i \in DOMAIN tracks :
           /\ tracks[i].max_track_sizing_function = FitContent(Length(1))
           /\ tracks[i].base_size = 1
           /\ \E a \in Lengths, b \in Lengths :
                  /\ a <= b
                  /\ tracks = size_axis(tracks, axisSpace, a, b)
                  /\ FinalBaseSize([tracks EXCEPT ![i].max_track_sizing_function = FitContent(Length(2))],
                                   i, a, b) = 2

Flexible(ts) == {i \in DOMAIN ts : ts[i].max_track_sizing_function.tag = "Fraction"}
FactorOf(t) == t.max_track_sizing_function.val
IsScenario(ts, space) ==
    /\ Len(ts) = 3
    /\ ts[1].max_track_sizing_function = Fixed(Length(FrUnit))
    /\ ts[1].min_track_sizing_function = Fixed(Length(FrUnit))
    /\ ts[2].max_track_sizing_function = Fraction(1)
    /\ ts[2].min_track_sizing_function = TrackAuto
    /\ ts[3].max_track_sizing_function = Fraction(2)
    /\ ts[3].min_track_sizing_function = TrackAuto
    /\ space = Definite(4 * FrUnit)

\* C13: when the available space is Definite and the base sizes the tracks enter
\* flexible expansion with do not exceed it, expansion leaves the sizes of the fr
\* tracks plus the base sizes of the other tracks summing to exactly the available
\* space, the fr tracks that grew sized in proportion to their flex factors and the
\* other tracks untouched, and the sizes stay so to placement; columns
\* [Length(u), Fraction(1), Fraction(2)] without content under Definite 4u end at
\* u, u and 2u.
C13_FlexConservation ==
    [][/\ (/\ gridPhase = "maximised"
           /\ gridPhase' = "expanded"
           /\ axisSpace.tag = "Definite"
           /\ Flexible(tracks) # {}
           /\ SumBase(tracks, DOMAIN tracks) <= axisSpace.val)
              => /\ SumBase(tracks', DOMAIN tracks') = axisSpace.val
                 /\ \A i \in DOMAIN tracks \ Flexible(tracks) :
                        tracks'[i].base_size = tracks[i].base_size
                 /\ \A i \in Flexible(tracks), j \in Flexible(tracks) :
                        (/\ tracks'[i].base_size > tracks[i].base_size
                         /\ tracks'[j].base_size > tracks[j].base_size)
                            => tracks'[i].base_size * FactorOf(tracks[j])
                                   = tracks'[j].base_size * FactorOf(tracks[i])
       /\ (/\ gridPhase = "expanded"
           /\ gridPhase' = "placed"
           /\ axisSpace.tag = "Definite"
           /\ Flexible(tracks) # {}
           /\ SumBase(tracks, DOMAIN tracks) = axisSpace.val)
              => \A i \in DOMAIN tracks : tracks'[i].base_size = tracks[i].base_size
       /\ (/\ gridPhase = "maximised"
           /\ gridPhase' = "expanded"
           /\ IsScenario(tracks, axisSpace)
           /\ tracks[2].base_size = 0
           /\ tracks[3].base_size = 0)
              => /\ tracks'[1].base_size = FrUnit
                 /\ tracks'[2].base_size = FrUnit
                 /\ tracks'[3].base_size = 2 * FrUnit]_vars

\* the scenario's three columns were sized and placed
C13_Witness ==
    /\ gridPhase = "placed"
    /\ IsScenario(tracks, axisSpace)
    /\ tracks[2].base_size = FrUnit
    /\ tracks[3].base_size = 2 * FrUnit
    /\ tracks[3].offset = 2 * FrUnit

\* the last leaf call: whether one was made, its arguments, and what they resolve to
Called == leaf.op # "none"
A == leaf.args
NS == leaf_node_sizes(A.style, A.known_dimensions, A.parent_size, A.sizing_mode)
BothKnown == NS.node_size.width.some /\ NS.node_size.height.some
EdgeSum(a, b) == resolve_or_zero(a, A.parent_size.width) + resolve_or_zero(b, A.parent_size.width)
FloorW == EdgeSum(A.style.padding.left, A.style.padding.right)
              + EdgeSum(A.style.border.left, A.style.border.right)
FloorH == EdgeSum(A.style.padding.top, A.style.padding.bottom)
              + EdgeSum(A.style.border.top, A.style.border.bottom)
GutterW == IF A.style.overflow.y = "Scroll" THEN A.style.scrollbar_width ELSE 0
GutterH == IF A.style.overflow.x = "Scroll" THEN A.style.scrollbar_width ELSE 0
ClampW(v) == maybe_clamp(v, NS.node_min_size.width, NS.node_max_size.width)
ClampH(v) == maybe_clamp(v, NS.node_min_size.height, NS.node_max_size.height)

\* C14: when both width and height are known, from known_dimensions or in
\* InherentSize mode from the resolved style size, the returned size is that size
\* clamped to min/max and then raised to the padding+border sum of the axis, and
\* Measurable::measure is not called, even if a Measurable is supplied.
C14_KnownSizeReturnedUnmeasured ==
    (Called /\ BothKnown) =>
        /\ leaf.size.width = Max(ClampW(NS.node_size.width.val), FloorW)
        /\ leaf.size.height = Max(ClampH(NS.node_size.height.val), FloorH)
        /\ leaf.measure_calls = <<>>

\* a leaf with a Measurable whose size is known from its style alone, the height cut
\* down by the max size
C14_Witness ==
    /\ Called
    /\ BothKnown
    /\ A.measurable.some
    /\ A.known_dimensions = NONE
    /\ A.sizing_mode = "InherentSize"
    /\ leaf.size.height < NS.node_size.height.val
    /\ leaf.size.height > FloorH

Measured == measure(A.measurable, leaf.measure_calls[1].known_dimensions,
                    leaf.measure_calls[1].available_space)
MeasuredW == ClampW(IF NS.node_size.width.some THEN NS.node_size.width.val
                    ELSE Measured.width + FloorW + GutterW)
MeasuredH == ClampH(IF NS.node_size.height.some THEN NS.node_size.height.val
                    ELSE Measured.height + FloorH + GutterH)

\* C15: when a Measurable is present and not both axes are known, measure is called
\* exactly once, with the caller's known_dimensions; per axis an explicit size wins
\* over what measure returned, otherwise the size is the measured size plus padding,
\* border and scrollbar gutter of the axis; that is clamped to min/max, and the
\* returned size is the clamped size wherever the padding+border floor and the
\* aspect ratio do not raise it.
C15_MeasuredSize ==
    (Called /\ A.measurable.some /\ ~BothKnown) =>
        /\ Len(leaf.measure_calls) = 1
        /\ leaf.measure_calls[1].known_dimensions = A.known_dimensions
        /\ leaf.size.width = Max(MeasuredW, FloorW)
        /\ leaf.size.height >= Max(MeasuredH, FloorH)
        /\ ~NS.aspect_ratio.some => leaf.size.height = Max(MeasuredH, FloorH)

\* a measured leaf whose style width differs from the measured width: the width is
\* the style's, the height the measured height plus the inset
C15_Witness ==
    /\ Called
    /\ A.measurable.some
    /\ ~BothKnown
    /\ A.known_dimensions = NONE
    /\ NS.node_size.width.some
    /\ ~NS.aspect_ratio.some
    /\ NS.node_size.width.val # Measured.width + FloorW + GutterW
    /\ leaf.size.width = NS.node_size.width.val
    /\ FloorH > 0
    /\ leaf.size.height = Measured.height + FloorH + GutterH

RatioTimes(v) == (v * NS.aspect_ratio.num) \div NS.aspect_ratio.den
RatioOver(v) == (v * NS.aspect_ratio.den) \div NS.aspect_ratio.num
MeasuredWithRatio ==
    /\ Called
    /\ A.measurable.some
    /\ ~BothKnown
    /\ A.sizing_mode = "InherentSize"
    /\ NS.aspect_ratio.some

\* C16 as claimed: in the measured step with an aspect ratio the final height is the
\* larger of the clamped height and clamped width / ratio, and the final width is the
\* larger of the clamped width and clamped height x ratio (each no smaller than the
\* padding+border floor).
C16_AspectRatioBothAxes ==
    MeasuredWithRatio =>
        /\ leaf.size.height = Max(Max(MeasuredH, RatioOver(MeasuredW)), FloorH)
        /\ leaf.size.width = Max(Max(MeasuredW, RatioTimes(MeasuredH)), FloorW)

\* C16, amended: in the measured step with an aspect ratio the final height is the
\* larger of the clamped height and clamped width / ratio; the final width is the
\* clamped width, not raised to clamped height x ratio (each no smaller than the
\* padding+border floor).
C16_AspectRatioHeightOnly ==
    MeasuredWithRatio =>
        /\ leaf.size.height = Max(Max(MeasuredH, RatioOver(MeasuredW)), FloorH)
        /\ leaf.size.width = Max(MeasuredW, FloorW)

\* a measured leaf with an aspect ratio whose clamped height x ratio exceeds the
\* width it was given, and one whose height was raised to width / ratio
C16_Witness ==
    /\ MeasuredWithRatio
    /\ RatioTimes(MeasuredH) > leaf.size.width
    /\ leaf.size.width > FloorW
    /\ leaf.size.height = MeasuredH

UnmeasuredW == Max(ClampW(IF NS.node_size.width.some THEN NS.node_size.width.val
                          ELSE FloorW + GutterW),
                   FloorW)
UnmeasuredH == Max(ClampH(IF NS.node_size.height.some THEN NS.node_size.height.val
                          ELSE FloorH + GutterH),
                   FloorH)
IsPlainBox(p) ==
    /\ A.style.size = SizeOf(Auto, Auto)
    /\ A.style.min_size = SizeOf(Auto, Auto)
    /\ A.style.max_size = SizeOf(Auto, Auto)
    /\ ~A.style.aspect_ratio.some
    /\ A.style.padding = Edges(Length(p))
    /\ A.style.border = Edges(Length(0))
    /\ A.style.overflow = PointOf("Visible", "Visible")
    /\ A.known_dimensions = NONE
    /\ ~A.measurable.some

\* C17: without a Measurable and with not both axes known, an axis without a known
\* size defaults to its content-box inset, is clamped to min/max and floored at
\* padding+border; then each axis is raised to what the aspect ratio makes of the
\* other.  The available space plays no part: a leaf Auto x Auto without content
\* and with padding Length(p) on all sides resolves to (2p, 2p) under any of them.
C17_UnmeasuredSize ==
    (Called /\ ~A.measurable.some /\ ~BothKnown) =>
        /\ leaf.size.width = Max(UnmeasuredW, IF NS.aspect_ratio.some THEN RatioTimes(UnmeasuredH) ELSE 0)
        /\ leaf.size.height = Max(UnmeasuredH, IF NS.aspect_ratio.some THEN RatioOver(UnmeasuredW) ELSE 0)
        /\ \A available_space \in LeafAvailableSpaces :
               leaf_measure_size([A EXCEPT !.available_space = available_space]) = leaf.size
        /\ \A p \in Lengths : IsPlainBox(p) => leaf.size = SizeOf(2 * p, 2 * p)

\* the padded empty leaf under a definite available space that its padding does
\* not fill
C17_Witness ==
    /\ Called
    /\ IsPlainBox(PercentDen)
    /\ A.available_space = SizeOf(Definite(2 * PercentDen), Definite(2 * PercentDen))
    /\ A.parent_size.width.some
    /\ leaf.size = SizeOf(2 * PercentDen, 2 * PercentDen)

\* C18: in every branch of compute and in both sizing modes the returned size is, in
\* each axis, at least the resolved padding plus border of that axis, also when the
\* max size, a pinned known dimension or the measured size is smaller.
C18_PaddingBorderFloor ==
    Called => (leaf.size.width >= FloorW /\ leaf.size.height >= FloorH)

\* both dimensions pinned below the padding+border sum, which the max size is below too
C18_Witness ==
    /\ Called
    /\ A.known_dimensions.width.some
    /\ A.known_dimensions.height.some
    /\ A.known_dimensions.width.val < FloorW
    /\ NS.node_max_size.width.some
    /\ NS.node_max_size.width.val < FloorW
    /\ A.measurable.some
    /\ leaf.size = SizeOf(FloorW, FloorH)

HasPercentEdges ==
    \E e \in {"left", "right", "top", "bottom"} :
        A.style.padding[e].unit = "Percent" \/ A.style.border[e].unit = "Percent"
Unsized ==
    /\ Called
    /\ ~A.measurable.some
    /\ NS.node_size = NONE
    /\ NS.node_min_size = NONE
    /\ NS.node_max_size = NONE
    /\ ~NS.aspect_ratio.some

\* C19: percentage padding and border resolve against parent_size.width on all four
\* edges: an unsized leaf without content is as high as its top and bottom padding
\* and border (and gutter) resolved against the parent's width, and unless the
\* style's height is itself a percentage the result is the same under every parent
\* height.
C19_PercentagesAgainstParentWidth ==
    /\ Unsized => leaf.size = SizeOf(FloorW + GutterW, FloorH + GutterH)
    /\ (Called /\ (A.sizing_mode = "ContentSize" \/ A.style.size.height.unit # "Percent")) =>
           \A height \in {None} \cup {Some(h * PercentDen) : h \in 0..4} :
               leaf_perform_layout([A EXCEPT !.parent_size.height = height]).size = leaf.size

\* an unsized leaf with percentage padding under a parent higher than wide: its
\* height is twice the percentage of the parent's width
C19_Witness ==
    /\ Unsized
    /\ A.style.padding = Edges(Percent(1))
    /\ A.parent_size = SizeOf(Some(2 * PercentDen), Some(4 * PercentDen))
    /\ GutterH = 0
    /\ leaf.size.height = 2 * ((2 * PercentDen) \div PercentDen)
    /\ leaf.size.height > 0

OfferedW == leaf.measure_calls[1].available_space.width
OfferedH == leaf.measure_calls[1].available_space.height

\* C20: the scrollbar gutter is reserved on the transposed axis: scrollbar_width is
\* added to the horizontal inset when overflow.y is Scroll and to the vertical inset
\* when overflow.x is Scroll, and nothing is added for any other overflow value.  An
\* unsized leaf without content is its padding and border plus that gutter, and a
\* Measurable of an unconstrained leaf is offered the definite available space less
\* padding, border and that gutter.
C20_ScrollbarGutter ==
    /\ Unsized => leaf.size = SizeOf(FloorW + GutterW, FloorH + GutterH)
    /\ (/\ Called
        /\ A.measurable.some
        /\ NS.node_size = NONE
        /\ NS.node_min_size = NONE
        /\ NS.node_max_size = NONE)
           => /\ A.available_space.width.tag = "Definite" =>
                     OfferedW = Definite(A.available_space.width.val - FloorW - GutterW)
              /\ A.available_space.height.tag = "Definite" =>
                     OfferedH = Definite(A.available_space.height.val - FloorH - GutterH)
              /\ A.available_space.width.tag # "Definite" => OfferedW = A.available_space.width
              /\ A.available_space.height.tag # "Definite" => OfferedH = A.available_space.height

\* a leaf that scrolls vertically and hides horizontal overflow: its Measurable is
\* offered a narrower width and the full height, and the leaf is wider by the gutter
C20_Witness ==
    /\ Called
    /\ A.measurable.some
    /\ A.measurable.kind = "fixed"
    /\ NS.node_size = NONE
    /\ NS.node_min_size = NONE
    /\ NS.node_max_size = NONE
    /\ A.style.overflow = PointOf("Hidden", "Scroll")
    /\ A.available_space.width.tag = "Definite"
    /\ OfferedW.val = A.available_space.width.val - FloorW - A.style.scrollbar_width
    /\ OfferedH.val = A.available_space.height.val - FloorH
    /\ leaf.size.width = A.measurable.width + FloorW + A.style.scrollbar_width
    /\ A.style.scrollbar_width > 0
\* the resolved padding and border of the call's style
PaddingOf(edge) == resolve_or_zero(A.style.padding[edge], A.parent_size.width)
BorderOf(edge) == resolve_or_zero(A.style.border[edge], A.parent_size.width)
CollapsesThrough == leaf.op = "leaf_perform_layout" /\ leaf.result.val.margins_can_collapse_through

\* C21: margins_can_collapse_through is true only when the display is Block, neither
\* overflow axis is a scroll container, the position is not Absolute, the resolved
\* top and bottom padding and border are all zero, the resolved height is exactly
\* zero, and there is no Measurable or the measured height is zero.
C21_CollapseThroughOnlyWhen ==
    CollapsesThrough =>
        /\ A.style.display = "Block"
        /\ ~is_scroll_container(A.style.overflow.x)
        /\ ~is_scroll_container(A.style.overflow.y)
        /\ A.style.position # "Absolute"
        /\ PaddingOf("top") = 0 /\ PaddingOf("bottom") = 0
        /\ BorderOf("top") = 0 /\ BorderOf("bottom") = 0
        /\ leaf.size.height = 0
        /\ \/ ~A.measurable.some
           \/ /\ Len(leaf.measure_calls) = 1
              /\ Measured.height = 0

\* a block in flow with padding on the left only, whose content measures to zero
\* height, can be collapsed through
C21_Witness ==
    /\ CollapsesThrough
    /\ A.measurable.some
    /\ PaddingOf("left") > 0
    /\ leaf.size.width > PaddingOf("left")

\* the call's arguments with the four size styles taken out of the style
Unstyled(a) ==
    [a EXCEPT !.style.size = SizeOf(Auto, Auto),
              !.style.min_size = SizeOf(Auto, Auto),
              !.style.max_size = SizeOf(Auto, Auto),
              !.style.aspect_ratio = NoRatio]
ContentCall == Called /\ A.sizing_mode = "ContentSize"

\* C22: in ContentSize mode the size, min_size, max_size and aspect_ratio of the
\* style are ignored: the call returns the size it returns for the style without
\* them (so two calls that differ only in those fields return the same size), and
\* an axis is pinned only by known_dimensions, whose value is returned on the axis
\* unless the padding and border exceed it.
C22_ContentSizeIgnoresSizeStyles ==
    ContentCall =>
        /\ leaf.size = leaf_measure_size(Unstyled(A))
        /\ A.known_dimensions.width.some =>
               leaf.size.width = Max(A.known_dimensions.width.val, FloorW)
        /\ A.known_dimensions.height.some =>
               leaf.size.height = Max(A.known_dimensions.height.val, FloorH)

\* a ContentSize call on a style with a size, a min size, a max size and an aspect
\* ratio, whose InherentSize result would differ on both axes
C22_Witness ==
    /\ ContentCall
    /\ A.style.size # SizeOf(Auto, Auto)
    /\ A.style.min_size # SizeOf(Auto, Auto)
    /\ A.style.max_size # SizeOf(Auto, Auto)
    /\ A.style.aspect_ratio.some
    /\ leaf_measure_size([A EXCEPT !.sizing_mode = "InherentSize"]).width # leaf.size.width
    /\ leaf_measure_size([A EXCEPT !.sizing_mode = "InherentSize"]).height # leaf.size.height

\* the nodes on the path from the node up to the root
AncestorsOrSelf(node) == {n \in Nodes : n = node \/ node \in Descendants(n)}

\* C23: marking a node dirty clears the node's own cache and the caches of all its
\* ancestors up to the root, and never touches the cache of any other node, its
\* descendants included.
C23_MarkDirtyClearsAncestors ==
    [][call'.op = "mark_dirty" =>
          \A n \in Nodes :
              IF n \in AncestorsOrSelf(call'.node)
              THEN cache'[n] = cache_new
              ELSE cache'[n] = cache[n]]_vars

\* C24: compute_free_space(used) of Definite(a) is a - used, which may be negative,
\* of MinContent it is 0, and of MaxContent it is infinity.
C24_ComputeFreeSpace ==
    limitCall.op = "compute_free_space" =>
        /\ axisSpace.tag = "Definite" => limitCall.ret = axisSpace.val - limitCall.arg.val
        /\ axisSpace.tag = "MinContent" => limitCall.ret = 0
        /\ axisSpace.tag = "MaxContent" => limitCall.ret = INFINITY

\* more space used than the definite space holds: the free space is negative
C24_Witness ==
    /\ limitCall.op = "compute_free_space"
    /\ axisSpace.tag = "Definite"
    /\ limitCall.arg.val > axisSpace.val
    /\ limitCall.ret < 0

\* the most specific source of the space of an axis: the node's own resolved size,
\* else its resolved max size, else the incoming available space if definite
MostSpecific(size, max_size, space) ==
    IF size.some THEN size ELSE IF max_size.some THEN max_size ELSE into_option(space)
SpaceW == MostSpecific(NS.node_size.width, NS.node_max_size.width, A.available_space.width)
SpaceH == MostSpecific(NS.node_size.height, NS.node_max_size.height, A.available_space.height)

\* C25: in the measured branch the available space handed to measure is, per axis,
\* taken from the most specific source (the node's own resolved size, else its
\* resolved max size, else the incoming definite available space), clamped to
\* min/max and reduced by the content-box inset of the axis; MinContent and
\* MaxContent are passed through unchanged when none of the three is definite.
C25_MostSpecificSpaceOffered ==
    (Called /\ A.measurable.some /\ ~BothKnown) =>
        /\ OfferedW = IF SpaceW.some THEN Definite(ClampW(SpaceW.val) - FloorW - GutterW)
                      ELSE A.available_space.width
        /\ OfferedH = IF SpaceH.some THEN Definite(ClampH(SpaceH.val) - FloorH - GutterH)
                      ELSE A.available_space.height

\* an InherentSize call with a pinned width, on a style with an aspect ratio and no
\* height given by known_dimensions or by the style, no min or max size, no content
PinnedWidthWithRatio ==
    /\ Called
    /\ A.sizing_mode = "InherentSize"
    /\ A.style.aspect_ratio.some
    /\ A.known_dimensions.width.some
    /\ ~A.known_dimensions.height.some
    /\ ~maybe_resolve(A.style.size.height, A.parent_size.height).some
    /\ NS.node_min_size = NONE
    /\ NS.node_max_size = NONE
    /\ ~A.measurable.some

\* C26: in InherentSize mode an axis pinned by known_dimensions short-circuits the
\* style resolution of that axis: the style's size on the axis plays no part in the
\* result.  With an aspect ratio and no height otherwise specified, a pinned width w
\* yields the height w / ratio (no less than the inset), never one derived from the
\* style's width.
C26_PinnedAxisShortCircuits ==
    /\ (Called /\ A.sizing_mode = "InherentSize" /\ A.known_dimensions.width.some) =>
           leaf.size = leaf_measure_size([A EXCEPT !.style.size.width = Auto])
    /\ (Called /\ A.sizing_mode = "InherentSize" /\ A.known_dimensions.height.some) =>
           leaf.size = leaf_measure_size([A EXCEPT !.style.size.height = Auto])
    /\ PinnedWidthWithRatio =>
           leaf.size.height = Max(RatioOver(Max(A.known_dimensions.width.val, FloorW)),
                                  FloorH + GutterH)

\* what C27 says of one collapsed track
CollapsedToZero(t) ==
    /\ t.min_track_sizing_function = Fixed(Length(0))
    /\ t.max_track_sizing_function = Fixed(Length(0))
    /\ ~is_flexible(t)
    /\ flex_factor(t) = 0
    /\ ~has_intrinsic_sizing_function(t)
    /\ ~uses_percentage(t)
    /\ \A space \in {None} \cup {Some(PercentDen * i) : i \in 0..MaxSpace} :
           fit_content_limit(t, space) = INFINITY

\* C27: across any sequence of GridTrack::new, gutter and collapse() calls a track
\* fresh from new or gutter is not collapsed, and every track with is_collapsed set
\* has both sizing functions equal to Fixed(Length(0)), so that it is not flexible,
\* its flex factor is 0, it has no intrinsic sizing function, it uses no percentage
\* and its fit-content limit is infinity.
C27_CollapsedTrackIsFixedZero ==
    /\ [](\A i \in DOMAIN tracks : tracks[i].is_collapsed => CollapsedToZero(tracks[i]))
    /\ [][\A i \in DOMAIN tracks' : i \notin DOMAIN tracks => ~tracks'[i].is_collapsed]_vars

\* a collapsed track beside a flexible one that was not collapsed
C27_Witness ==
    \E i \in DOMAIN tracks, j \in DOMAIN tracks :
        /\ tracks[i].is_collapsed
        /\ tracks[i].kind = "Track"
        /\ ~tracks[j].is_collapsed
        /\ is_flexible(tracks[j])
        /\ flex_factor(tracks[j]) > 0

\* the fields of a GridTrack other than is_collapsed and the two sizing functions
Frame(t) ==
    <<t.kind, t.offset, t.base_size, t.growth_limit, t.content_alignment_adjustment,
      t.item_incurred_increase, t.base_size_planned_increase, t.growth_limit_planned_increase,
      t.infinitely_growable>>

\* C28: collapse() changes only is_collapsed and the two sizing functions: kind,
\* offset, base_size, growth_limit and the scratch accumulators keep their values,
\* so a nonzero base_size or growth_limit is not reset; and a second collapse() on
\* the collapsed track changes nothing.
C28_CollapseFrame ==
    /\ [][limitCall'.op = "collapse" =>
             LET i == limitCall'.index
             IN /\ Frame(tracks'[i]) = Frame(tracks[i])
                /\ tracks'[i].is_collapsed
                /\ \A j \in DOMAIN tracks : j # i => tracks'[j] = tracks[j]]_vars
    /\ [](limitCall.op = "collapse" =>
             collapse(tracks[limitCall.index]) = tracks[limitCall.index])

\* a collapsed track that was flexible or sized by its content keeps a base size
\* and growth limit above zero and its offset
C28_Witness ==
    /\ limitCall.op = "collapse"
    /\ tracks[1].is_collapsed
    /\ tracks[1].base_size > 0
    /\ tracks[1].growth_limit = INFINITY
    /\ tracks[1].offset > 0
    /\ tracks[1].kind = "Track"

\* C29: for every reachable set s and every margin m, s.collapse_with_set(from_margin(m))
\* equals s.collapse_with_margin(m); zero().collapse_with_margin(m) equals
\* from_margin(m); and collapse_with_set is commutative on reachable sets.
C29_SetAndMarginAgree ==
    /\ \A s \in {marginSet, otherSet}, m \in Margins :
           collapse_with_set(s, from_margin(m)) = collapse_with_margin(s, m)
    /\ \A m \in Margins : collapse_with_margin(zero, m) = from_margin(m)
    /\ collapse_with_set(marginSet, otherSet) = collapse_with_set(otherSet, marginSet)

\* two chains that differ, each holding a positive and a negative margin, neither
\* dominating the other
C29_Witness ==
    /\ marginSet.positive > otherSet.positive
    /\ otherSet.positive > 0
    /\ marginSet.negative > otherSet.negative
    /\ marginSet.negative < 0

\* the call's arguments under each value of vertical_margins_are_collapsible
Collapsibles(a) ==
    {[a EXCEPT !.vertical_margins_are_collapsible = [start |-> start, end |-> end]] :
        start \in BOOLEAN, end \in BOOLEAN}

\* C30: the leaf measure_size returns exactly the size field of what perform_layout
\* returns for the same arguments, and neither result depends on
\* vertical_margins_are_collapsible.
C30_MeasureSizeIsLayoutSize ==
    /\ leaf.op = "leaf_measure_size" =>
           /\ leaf.size = leaf_perform_layout(A).size
           /\ \A a \in Collapsibles(A) : leaf_measure_size(a) = leaf.size
    /\ leaf.op = "leaf_perform_layout" =>
           /\ leaf.result.val.size = leaf_measure_size(A)
           /\ \A a \in Collapsibles(A) : leaf_perform_layout(a) = leaf.result.val

\* a measure_size call in InherentSize mode on a leaf with content, whose style
\* makes it a size that its content alone would not
C30_Witness ==
    /\ leaf.op = "leaf_measure_size"
    /\ A.sizing_mode = "InherentSize"
    /\ A.measurable.some
    /\ leaf.size # leaf_perform_layout([A EXCEPT !.sizing_mode = "ContentSize"]).size

====
